---- MODULE Spec2Model ----
(***************************************************************************)
(* Model of the aipodflow podcast CLI: the process-transcript pipeline     *)
(* (load config, load transcript, generate candidates, select, save,       *)
(* upload to Art19) in its two revisions, and the step3 redeploy command.  *)
(*                                                                         *)
(* Go strings are modelled as sequences of one-character strings, so that  *)
(* strings.TrimSpace, strings.Split, strings.Index and slicing are         *)
(* computed as the code computes them.  A fixed literal that the code      *)
(* never parses again (a default title, the show-note template) is one     *)
(* token of such a sequence.  Errors are sequences of messages, the        *)
(* outermost wrapper first (fmt.Errorf("...: %w", err)).                   *)
(***************************************************************************)
EXTENDS Integers, Sequences, FiniteSets, TLC

(***************************************************************************)
(* Bounds of the model.                                                    *)
(***************************************************************************)
\* largest number of title lines in a generated response
MaxLines == 11
\* largest number of paragraphs in a generated show-note response
MaxNotes == 2
\* largest number of flags a command line sets
MaxFlags == 2
\* largest number of proposals the user changes in an interactive selection
MaxEdits == 1

(***************************************************************************)
(* Program constants.                                                      *)
(***************************************************************************)
\* number of title candidates GenerateTitles ensures
TitleCount == 10
\* number of show-note candidates GenerateShowNotes ensures
NoteCount == 10
\* number of lines of the response the show-note template keeps
SummaryLines == 5

Nil == [nil |-> TRUE]
NoErr == <<>>

Min(S) == CHOOSE x \in S : \A y \in S : x <= y
Max(S) == CHOOSE x \in S : \A y \in S : x >= y

(***************************************************************************)
(* Go's strings package on character sequences.                            *)
(***************************************************************************)
IsSpace(c) == c \in {" ", "\t", "\n", "\r"}

DigitChars == {"0", "1", "2", "3", "4", "5", "6", "7", "8", "9"}

IsDigit(c) == c \in DigitChars

\* strings.TrimSpace
TrimSpace(s) ==
  LET keep == {i \in 1..Len(s) : ~IsSpace(s[i])}
  IN IF keep = {} THEN <<>> ELSE SubSeq(s, Min(keep), Max(keep))

\* strings.Index: 0-based position of the first occurrence, -1 when absent
Index(s, sub) ==
  LET pos == {i \in 1..(Len(s) - Len(sub) + 1) : SubSeq(s, i, i + Len(sub) - 1) = sub}
  IN IF pos = {} THEN -1 ELSE Min(pos) - 1

\* strings.Split(s, "\n")
RECURSIVE SplitLines(_)
SplitLines(s) ==
  LET nl == {i \in 1..Len(s) : s[i] = "\n"}
  IN IF nl = {} THEN <<s>>
     ELSE <<SubSeq(s, 1, Min(nl) - 1)>> \o SplitLines(SubSeq(s, Min(nl) + 1, Len(s)))

\* strings.Join(lines, "\n")
RECURSIVE JoinLines(_)
JoinLines(lines) ==
  IF lines = <<>> THEN <<>>
  ELSE IF Len(lines) = 1 THEN lines[1]
  ELSE lines[1] \o <<"\n">> \o JoinLines(Tail(lines))

\* s[from:] with Go's 0-based offset
SliceFrom(s, from) == SubSeq(s, from + 1, Len(s))

\* s[from:to] with Go's 0-based offsets
Slice(s, from, to) == SubSeq(s, from + 1, to)

\* decimal digits of a number below 100
Digits(n) ==
  LET d == <<"0", "1", "2", "3", "4", "5", "6", "7", "8", "9">>
  IN IF n < 10 THEN <<d[n + 1]>> ELSE <<d[(n \div 10) + 1], d[(n % 10) + 1]>>

\* fmt.Errorf("msg: %w", err)
Wrap(msg, err) == <<msg>> \o err

(***************************************************************************)
(* AIService.GenerateTitles, line-parsing revisions.                       *)
(***************************************************************************)
\* the ten hard-coded fallback titles, one token each
DefaultTitles ==
  << <<"defaultTitle0">>, <<"defaultTitle1">>, <<"defaultTitle2">>, <<"defaultTitle3">>,
     <<"defaultTitle4">>, <<"defaultTitle5">>, <<"defaultTitle6">>, <<"defaultTitle7">>,
     <<"defaultTitle8">>, <<"defaultTitle9">> >>

\* body of the parse loop for one line: trim, strip a one-digit numbering
StripNumbering(line) ==
  LET title == TrimSpace(line)
  IN IF Len(title) > 2 /\ IsDigit(title[1]) /\ title[2] \in {".", ":", ")"}
     THEN TrimSpace(SliceFrom(title, 2))
     ELSE title

\* mutant of ParseLoop: the loop does not stop at TitleCount titles
RECURSIVE ParseLoop_NoLimit(_, _)
ParseLoop_NoLimit(lines, result) ==
  IF lines = <<>> THEN result
  ELSE IF TrimSpace(Head(lines)) = <<>> THEN ParseLoop_NoLimit(Tail(lines), result)
  ELSE ParseLoop_NoLimit(Tail(lines), Append(result, StripNumbering(Head(lines))))

\* the parse loop: skip blank lines, stop once TitleCount titles are kept
RECURSIVE ParseLoop(_, _)
ParseLoop(lines, result) ==
  IF lines = <<>> \/ Len(result) >= TitleCount THEN result
  ELSE IF TrimSpace(Head(lines)) = <<>> THEN ParseLoop(Tail(lines), result)
  ELSE ParseLoop(Tail(lines), Append(result, StripNumbering(Head(lines))))

ParseTitles(responseText) == ParseLoop(SplitLines(TrimSpace(responseText)), <<>>)

\* mutant of PadLoop: the loop condition is i < 9
RECURSIVE PadLoop_StopsEarly(_, _, _)
PadLoop_StopsEarly(result, i, defaults) ==
  IF i >= TitleCount - 1 THEN result
  ELSE PadLoop_StopsEarly(Append(result, defaults[(i - Len(result)) + 1]), i + 1, defaults)

\* mutant of PadLoop: pads by repeating the titles already obtained
RECURSIVE PadLoop_RepeatObtained(_, _, _)
PadLoop_RepeatObtained(result, i, defaults) ==
  IF i >= TitleCount THEN result
  ELSE IF result = <<>>
  THEN PadLoop_RepeatObtained(Append(result, defaults[1]), i + 1, defaults)
  ELSE PadLoop_RepeatObtained(Append(result, result[1]), i + 1, defaults)

\* for i := len(result); i < 10; i++ { result = append(result, defaults[i-len(result)]) }
\* len(result) is re-read after every append, so the index stays 0.
RECURSIVE PadLoop(_, _, _)
PadLoop(result, i, defaults) ==
  IF i >= TitleCount THEN result
  ELSE PadLoop(Append(result, defaults[(i - Len(result)) + 1]), i + 1, defaults)

\* the 0-based indexes at which the padding loop reads the default list, one
\* per iteration
RECURSIVE PadReads(_, _)
PadReads(result, i) ==
  IF i >= TitleCount THEN <<>>
  ELSE <<i - Len(result)>> \o PadReads(Append(result, <<"default">>), i + 1)

\* mutant of PadTitles: the result is not padded
PadTitles_None(result) == result

PadTitles(result) ==
  IF Len(result) < TitleCount THEN PadLoop(result, Len(result), DefaultTitles) ELSE result

\* AIService.GenerateTitles when the API call returned responseText
GenerateTitlesParsed(responseText) == PadTitles(ParseTitles(responseText))

(***************************************************************************)
(* AIService.GenerateAllContent, the combined-call revision.               *)
(***************************************************************************)
TitleMarker == <<"[", "T", "I", "T", "L", "E", "]">>
ShowNoteMarker == <<"[", "S", "H", "O", "W", " ", "N", "O", "T", "E", "]">>

\* the [titleSection, showNoteSection] pair GenerateAllContent extracts
GenerateAllContent(responseText) ==
  LET titleStart == Index(responseText, TitleMarker)
      showNoteStart == Index(responseText, ShowNoteMarker)
      titleSection1 ==
        IF titleStart >= 0 /\ showNoteStart > titleStart
        THEN TrimSpace(Slice(responseText, titleStart + Len(TitleMarker), showNoteStart))
        ELSE <<>>
      showNoteSection1 ==
        IF showNoteStart >= 0
        THEN TrimSpace(SliceFrom(responseText, showNoteStart + Len(ShowNoteMarker)))
        ELSE <<>>
      lines == SplitLines(responseText)
      fallback == titleSection1 = <<>> /\ showNoteStart < 0
  IN [titles |-> << IF fallback THEN lines[1] ELSE titleSection1 >>,
      showNotes |-> << IF fallback THEN JoinLines(Tail(lines)) ELSE showNoteSection1 >>]

(***************************************************************************)
(* AIService.GenerateShowNotes, template revision and paragraph revision.  *)
(***************************************************************************)
\* n copies of x
Repeat(x, n) == [i \in 1..n |-> x]

\* the fixed show-note template around the %s summary, one token each side
ShowNoteTemplate(summary) == <<"templateHead">> \o summary \o <<"templateTail">>

\* template revision: keep the first SummaryLines lines, wrap, copy NoteCount times
GenerateShowNotesTemplate(responseText) ==
  LET lines == SplitLines(responseText)
      summary == IF Len(lines) > SummaryLines
                 THEN JoinLines(SubSeq(lines, 1, SummaryLines))
                 ELSE responseText
  IN Repeat(ShowNoteTemplate(summary), NoteCount)

\* the ten hard-coded fallback show notes, one token each
DefaultNotes ==
  << <<"defaultNote0">>, <<"defaultNote1">>, <<"defaultNote2">>, <<"defaultNote3">>,
     <<"defaultNote4">>, <<"defaultNote5">>, <<"defaultNote6">>, <<"defaultNote7">>,
     <<"defaultNote8">>, <<"defaultNote9">> >>

\* paragraph revision, first loop: lines up to a blank line form one note
RECURSIVE SplitParagraphs(_, _, _)
SplitParagraphs(lines, currentNote, showNotes) ==
  IF lines = <<>>
  THEN IF TrimSpace(currentNote) # <<>> THEN Append(showNotes, TrimSpace(currentNote))
       ELSE showNotes
  ELSE IF TrimSpace(Head(lines)) = <<>>
       THEN IF TrimSpace(currentNote) # <<>>
            THEN SplitParagraphs(Tail(lines), <<>>, Append(showNotes, TrimSpace(currentNote)))
            ELSE SplitParagraphs(Tail(lines), currentNote, showNotes)
       ELSE SplitParagraphs(Tail(lines), currentNote \o Head(lines) \o <<"\n">>, showNotes)

\* strings.TrimPrefix
TrimPrefix(s, prefix) ==
  IF Len(s) >= Len(prefix) /\ SubSeq(s, 1, Len(prefix)) = prefix
  THEN SliceFrom(s, Len(prefix)) ELSE s

\* the label prefixes "<label>%d:" removed from the i-th note (i is 0-based)
NoteLabel(label, i) == <<label>> \o Digits(i + 1) \o <<":">>

\* paragraph revision, body of the second loop for the i-th note
CleanNote(rawNote, i) ==
  LET note == StripNumbering(rawNote)
      n1 == TrimPrefix(note, NoteLabel("showNoteLabel", i))
      n2 == TrimPrefix(n1, NoteLabel("showNoteCandidateLabel", i))
      n3 == TrimPrefix(n2, NoteLabel("candidateLabel", i))
  IN TrimSpace(n3)

RECURSIVE CleanLoop(_, _, _)
CleanLoop(showNotes, i, result) ==
  IF i >= Len(showNotes) \/ Len(result) >= NoteCount THEN result
  ELSE CleanLoop(showNotes, i + 1, Append(result, CleanNote(showNotes[i + 1], i)))

RECURSIVE PadNotesLoop(_, _)
PadNotesLoop(result, i) ==
  IF i >= NoteCount THEN result
  ELSE PadNotesLoop(Append(result, DefaultNotes[(i - Len(result)) + 1]), i + 1)

GenerateShowNotesParsed(responseText) ==
  LET split == SplitParagraphs(SplitLines(responseText), <<>>, <<>>)
      showNotes == IF Len(split) = 0 THEN <<responseText>> ELSE split
      result == CleanLoop(showNotes, 0, <<>>)
  IN IF Len(result) < NoteCount THEN PadNotesLoop(result, Len(result)) ELSE result

\* AIService.GenerateAdTimecodes: ten dummy entries, or none in the combined revision
AdTimecodeDummies == [i \in 1..10 |-> <<"adTimecodes">> \o Digits(i - 1)]


(***************************************************************************)
(* Inputs: what the chat-completion API may answer.  An answer is kept as  *)
(* the description [form, style, n, len] of its text; AnswerText gives     *)
(* the text the code parses.                                               *)
(***************************************************************************)
Letters == <<"a", "b", "c", "d", "e", "f", "g", "h", "i", "j", "k", "l", "m", "n", "o", "p">>

\* the text of the i-th generated title
TitleText(i) == <<Letters[i]>>

\* the i-th line of a title response in the given style
TitleLine(i, style) ==
  CASE style = "plain" -> TitleText(i)
    [] style = "numbered" -> Digits(i) \o <<".", " ">> \o TitleText(i)
    [] style = "spaced" -> <<" ">> \o TitleText(i) \o <<" ", "\n", " ">>

\* a title response of n lines; the spaced style adds blank lines around them
TitleResponse(n, style) ==
  LET body == JoinLines([i \in 1..n |-> TitleLine(i, style)])
  IN IF style = "spaced" THEN <<"\n">> \o body \o <<"\n">> ELSE body

\* plain responses of every length, numbered and spaced ones of a few lengths
TitleResponses ==
  [form : {"lines"}, style : {"plain"}, n : 0..MaxLines, len : {1}]
  \cup [form : {"lines"}, style : {"numbered"}, n : {2, MaxLines}, len : {1}]
  \cup [form : {"lines"}, style : {"spaced"}, n : {0, 3}, len : {1}]

\* the text of the j-th line of the i-th show-note paragraph
NoteLine(i, j) == <<Letters[((((i - 1) * 3) + j - 1) % Len(Letters)) + 1]>>

\* a show-note response of n paragraphs of len lines, blank lines between them
NoteResponse(n, len) ==
  JoinLines([i \in 1..n |-> JoinLines([j \in 1..len |-> NoteLine(i, j)]) \o <<"\n">>])

\* one-line paragraphs, one response longer than SummaryLines lines, and one
\* of more than NoteCount paragraphs
NoteResponses ==
  [form : {"paragraphs"}, style : {"plain"}, n : 0..MaxNotes, len : {1}]
  \cup [form : {"paragraphs"}, style : {"plain"}, n : {2}, len : {3}]
  \cup [form : {"paragraphs"}, style : {"plain"}, n : {NoteCount + 1}, len : {1}]

\* answers to the combined prompt: with both markers, with one, with none,
\* with the markers swapped
CombinedResponse(shape, title, note) ==
  CASE shape = "both" -> TitleMarker \o <<"\n">> \o title \o <<"\n">> \o ShowNoteMarker \o <<"\n">> \o note
    [] shape = "noTitleMarker" -> title \o <<"\n">> \o ShowNoteMarker \o <<"\n">> \o note
    [] shape = "noMarkers" -> title \o <<"\n">> \o note
    [] shape = "swapped" -> ShowNoteMarker \o <<"\n">> \o note \o <<"\n">> \o TitleMarker \o <<"\n">> \o title

CombinedShapes == {"both", "noTitleMarker", "noMarkers", "swapped"}

\* answers to the combined prompt when the titles are wanted: the title
\* section is empty (len 0) or one title (len 1)
CombinedTitleResponses ==
  [form : {"combined"}, style : CombinedShapes, n : {1}, len : {0, 1}]

\* answers to the combined prompt when the show notes are wanted: the note
\* section has no paragraph or MaxNotes paragraphs
CombinedNoteResponses ==
  [form : {"combined"}, style : CombinedShapes, n : {0, MaxNotes}, len : {1}]

\* the text of an answer
AnswerText(a) ==
  CASE a.form = "lines" -> TitleResponse(a.n, a.style)
    [] a.form = "paragraphs" -> NoteResponse(a.n, a.len)
    [] a.form = "combined" ->
         CombinedResponse(a.style, IF a.len = 0 THEN <<>> ELSE TitleText(1),
                          NoteResponse(a.n, 1))

\* no answer: the call failed or was not made
NoAnswer == [form |-> "none", style |-> "plain", n |-> 0, len |-> 0]

\* the revisions of AIService
AIRevs == {"combined", "template", "paragraph"}

\* what the API may answer to the title prompt of revision ai
TitleAnswers(ai) == IF ai = "combined" THEN CombinedTitleResponses ELSE TitleResponses

\* what the API may answer to the show-note prompt of revision ai
NoteAnswers(ai) == IF ai = "combined" THEN CombinedNoteResponses ELSE NoteResponses

\* number of non-blank lines of a response
NonBlankCount(responseText) ==
  Cardinality({i \in DOMAIN SplitLines(responseText) : TrimSpace(SplitLines(responseText)[i]) # <<>>})


(***************************************************************************)
(* Builds, flags and environment.                                          *)
(***************************************************************************)
\* environment variables validateConfig requires
RequiredEnv ==
  {"OPENAI_API_KEY", "ART19_USERNAME", "ART19_PASSWORD", "TWITTER_API_KEY",
   "TWITTER_API_SECRET", "TWITTER_ACCESS_TOKEN", "VERCEL_DEPLOY_HOOK"}

\* every environment variable the modelled commands read
EnvNames == RequiredEnv \cup {"ART19_EPISODE_NEW_URL"}

\* environments: everything set, exactly one variable missing, nothing set
EnvChoices == {EnvNames} \cup {EnvNames \ {n} : n \in EnvNames} \cup {{}}

\* the environment variables step4 reads
Step4EnvNames == {"RSS_FEED_URL", "SPOTIFY_SHOW_URL", "APPLE_PODCAST_URL"}

\* the environments of a run of the given command
CmdEnvChoices(c) ==
  CASE c = "step4" ->
         {Step4EnvNames} \cup {Step4EnvNames \ {n} : n \in Step4EnvNames} \cup {{}}
    [] c = "step1" -> {{"OPENAI_API_KEY"}, {}}
    [] OTHER -> EnvChoices

\* The source holds several revisions of each file.  A build picks one
\* revision of each: proc is the process-transcript command ("current" has
\* the titles-only/gen-shownotes/skip-upload/api-only flags and calls
\* GenerateCandidates(transcript, generateShowNotes); "legacy" has the
\* non-interactive flag and calls GenerateCandidates(transcript)), ai the
\* AIService, upload the Art19Processor.UploadDraft, ui the SelectContent.
\* The current command always uses the display-only SelectContent; the
\* combined AIService, whose GenerateAdTimecodes is "no longer used", goes
\* with the GenerateCandidates that no longer calls it; the legacy command
\* goes with the UploadDraft that still logs the ad timecodes.
Builds ==
  {b \in [proc : {"current", "legacy"}, ai : AIRevs,
          upload : {"skip", "draftTitle"}, ui : {"display", "propose", "choose"}] :
     /\ b.proc = "current" => b.ui = "display"
     /\ b.proc = "legacy" => b.ui # "display" /\ b.ai # "combined" /\ b.upload = "skip"}

DefaultFlags ==
  [titlesOnly |-> FALSE, genShownotes |-> TRUE, skipUpload |-> FALSE, apiOnly |-> FALSE,
   nonInteractive |-> FALSE, dryRun |-> FALSE, inputAudio |-> <<>>, outputDir |-> <<>>,
   openaiKey |-> <<>>, contentFile |-> <<>>,
   rssURL |-> <<>>, spotifyURL |-> <<>>, appleURL |-> <<>>, output |-> <<>>]

AudioPaths == {<<>>, <<"audio.mp3">>}
OutputDirs == {<<>>, <<"out">>}

\* number of flags a command line sets to something else than the default
FlagsSet(f) == Cardinality({k \in DOMAIN DefaultFlags : f[k] # DefaultFlags[k]})

\* the flag settings a command line of the given command and build can carry
AllFlagChoices(c, b) ==
  CASE c = "process" /\ b.proc = "current" ->
         {[DefaultFlags EXCEPT !.titlesOnly = t, !.genShownotes = g, !.skipUpload = s,
                               !.apiOnly = a, !.inputAudio = m, !.outputDir = o] :
            t \in BOOLEAN, g \in BOOLEAN, s \in BOOLEAN, a \in BOOLEAN,
            m \in AudioPaths, o \in OutputDirs}
    [] c = "process" /\ b.proc = "legacy" ->
         {[DefaultFlags EXCEPT !.nonInteractive = n, !.inputAudio = m, !.outputDir = o] :
            n \in BOOLEAN, m \in AudioPaths, o \in OutputDirs}
    [] c = "step1" ->
         {[DefaultFlags EXCEPT !.titlesOnly = t, !.genShownotes = g, !.outputDir = o,
                               !.openaiKey = k] :
            t \in BOOLEAN, g \in BOOLEAN, o \in OutputDirs, k \in {<<>>, <<"--openai-key">>}}
    [] c = "step2" ->
         {[DefaultFlags EXCEPT !.inputAudio = m, !.contentFile = f] :
            m \in AudioPaths, f \in {<<>>, <<"selected_content.txt">>}}
    [] c = "step3" -> {[DefaultFlags EXCEPT !.dryRun = d] : d \in BOOLEAN}
    [] c = "step4" ->
         {[DefaultFlags EXCEPT !.dryRun = d, !.rssURL = r, !.spotifyURL = s,
                               !.appleURL = a, !.output = o] :
            d \in BOOLEAN, r \in {<<>>, <<"--rss-url">>}, s \in {<<>>, <<"--spotify-url">>},
            a \in {<<>>, <<"--apple-url">>}, o \in {<<>>, <<"post.txt">>}}

FlagChoices(c, b) == {f \in AllFlagChoices(c, b) : FlagsSet(f) <= MaxFlags}

\* step1 runs the current GenerateCandidates and the display-only
\* SelectContent over any AIService; it uploads nothing
Step1Builds ==
  {[proc |-> "current", ai |-> a, upload |-> "skip", ui |-> "display"] : a \in AIRevs}

\* step2 runs either UploadDraft; it generates and selects nothing
Step2Builds ==
  {[proc |-> "current", ai |-> "combined", upload |-> u, ui |-> "display"] :
     u \in {"skip", "draftTitle"}}

\* the builds of a run of the given command
CmdBuilds(c) ==
  CASE c = "process" -> Builds
    [] c = "step1" -> Step1Builds
    [] c = "step2" -> Step2Builds
    \* step3 and step4: their code does not depend on the revisions above
    [] OTHER -> {[proc |-> "current", ai |-> "combined", upload |-> "draftTitle",
                  ui |-> "display"]}

\* the subcommands of the root command
Commands == {"process", "step1", "step2", "step3", "step4"}

(***************************************************************************)
(* State.                                                                  *)
(***************************************************************************)
VARIABLES
  build,       \* the revisions this run is built from
  cmd,         \* the subcommand being run
  flags,       \* its command-line flags
  env,         \* the environment variables that are set (after godotenv.Load)
  pc,          \* position of the command's RunE
  candidates,  \* *model.ContentCandidates returned by GenerateCandidates, or Nil
  selected,    \* *model.SelectedContent, or Nil
  files,       \* the output files written so far
  err,         \* the error RunE returned, NoErr while none
  calls,       \* number of calls made so far, per operation
  api,         \* what the last GenerateCandidates saw of the chat-completion API
  requests,    \* the HTTP requests handed to an http.Client, in order
  trace,       \* the stages and service operations invoked, in order
  input,       \* what the user did at the prompts of SelectContent, or Nil
  post,        \* step4: the pieces of the social-media post, or Nil
  exit         \* what main did after Execute returned, Nil while running

vars ==
  <<build, cmd, flags, env, pc, candidates, selected, files, err, calls, api,
    requests, trace, input, post, exit>>

NoCalls ==
  [chat |-> 0, generateTitles |-> 0, generateShowNotes |-> 0, selectContent |-> 0,
   uploadDraft |-> 0, publishEpisode |-> 0, uploadDraftTitle |-> 0, http |-> 0]

NoApi ==
  [titleCall |-> "none", titleAnswer |-> NoAnswer, titleChatCalls |-> 0,
   noteCall |-> "none", noteAnswer |-> NoAnswer]

Init ==
  /\ cmd \in Commands
  /\ build \in CmdBuilds(cmd)
  /\ flags \in FlagChoices(cmd, build)
  /\ env \in CmdEnvChoices(cmd)
  /\ pc = "start"
  /\ candidates = Nil
  /\ selected = Nil
  /\ files = {}
  /\ err = NoErr
  /\ calls = NoCalls
  /\ api = NoApi
  /\ requests = <<>>
  /\ trace = <<>>
  /\ input = Nil
  /\ post = Nil
  /\ exit = Nil

\* RunE returns e: cobra hands it to main
Fail(e) == pc' = "failed" /\ err' = e

\* an entry of trace: the operation invoked and its arguments
Op(name, args) == [op |-> name, args |-> args]

\* an entry of requests: the request and what came of it
Request(method, target, payload, http) ==
  [method |-> method, target |-> target, payload |-> payload, outcome |-> http]

(***************************************************************************)
(* config.LoadConfig.                                                      *)
(***************************************************************************)
\* validateConfig ranges over a Go map, so which missing variable the error
\* names is not determined
\* mutant of validateConfig: OPENAI_API_KEY is left out of the required map
validateConfig_ForgetsOpenAIKey(e) ==
  LET required == RequiredEnv \ {"OPENAI_API_KEY"}
  IN IF required \subseteq e THEN {NoErr}
     ELSE {<<"required environment variable is not set", key>> : key \in required \ e}

validateConfig(e) ==
  IF RequiredEnv \subseteq e THEN {NoErr}
  ELSE {<<"required environment variable is not set", key>> : key \in RequiredEnv \ e}

LoadConfig ==
  /\ cmd \in {"process", "step2"}
  /\ pc = "start"
  /\ \E e \in validateConfig(env) :
       IF e # NoErr
       THEN Fail(Wrap("failed to load configuration", e))
       ELSE pc' = "configured" /\ UNCHANGED err
  /\ UNCHANGED <<build, cmd, flags, env, candidates, selected, files, calls, api>>
  /\ UNCHANGED <<requests, trace, input, post, exit>>

(***************************************************************************)
(* step1: the OpenAI key comes from --openai-key or the environment.       *)
(***************************************************************************)
Step1Key ==
  /\ cmd = "step1"
  /\ pc = "start"
  /\ IF flags.openaiKey = <<>> /\ "OPENAI_API_KEY" \notin env
     THEN Fail(<<"OpenAI API key is required. Set it with --openai-key flag or OPENAI_API_KEY environment variable">>)
     ELSE pc' = "configured" /\ UNCHANGED err
  /\ UNCHANGED <<build, cmd, flags, env, candidates, selected, files, calls, api>>
  /\ UNCHANGED <<requests, trace, input, post, exit>>

(***************************************************************************)
(* os.MkdirAll and processor.LoadTranscript.                               *)
(***************************************************************************)
LoadTranscript ==
  /\ cmd \in {"process", "step1"}
  /\ pc = "configured"
  /\ \E mkdirOk \in BOOLEAN, readOk \in BOOLEAN :
       IF flags.outputDir # <<>> /\ ~mkdirOk
       THEN Fail(<<"failed to create output directory", "mkdir error">>) /\ UNCHANGED trace
       ELSE /\ trace' = Append(trace, Op("LoadTranscript", <<>>))
            /\ IF ~readOk
               THEN Fail(<<"failed to load transcript", "read error">>)
               ELSE pc' = "loaded" /\ UNCHANGED err
  /\ UNCHANGED <<build, cmd, flags, env, candidates, selected, files, calls, api>>
  /\ UNCHANGED <<requests, input, post, exit>>


(***************************************************************************)
(* The chat-completion call and the AIService methods around it.           *)
(***************************************************************************)
\* CreateChatCompletion returned an error
ApiFailure == [ok |-> FALSE, answer |-> NoAnswer]

\* the outcomes of one CreateChatCompletion call
Outcomes(answers) == {ApiFailure} \cup {[ok |-> TRUE, answer |-> a] : a \in answers}

\* mutant of GenerateTitles: an API error is swallowed and defaults are returned
GenerateTitles_SwallowError(ai, outcome) ==
  IF ~outcome.ok
  THEN [titles |-> PadTitles(<<>>), chatCalls |-> 1, err |-> NoErr]
  ELSE [titles |-> IF ai = "combined"
                   THEN GenerateAllContent(AnswerText(outcome.answer)).titles
                   ELSE GenerateTitlesParsed(AnswerText(outcome.answer)),
        chatCalls |-> 1, err |-> NoErr]

\* mutant of GenerateTitles: an answer without any title is an error
GenerateTitles_ZeroIsError(ai, outcome) ==
  IF ~outcome.ok
  THEN [titles |-> <<>>, chatCalls |-> 1, err |-> <<"failed to generate titles", "api error">>]
  ELSE IF ai # "combined" /\ ParseTitles(AnswerText(outcome.answer)) = <<>>
  THEN [titles |-> <<>>, chatCalls |-> 1, err |-> <<"failed to generate titles", "no titles">>]
  ELSE [titles |-> IF ai = "combined"
                   THEN GenerateAllContent(AnswerText(outcome.answer)).titles
                   ELSE GenerateTitlesParsed(AnswerText(outcome.answer)),
        chatCalls |-> 1, err |-> NoErr]

\* mutant of GenerateTitles: a second API call is made when titles are short
GenerateTitles_Retry(ai, outcome) ==
  IF ~outcome.ok
  THEN [titles |-> <<>>, chatCalls |-> 1, err |-> <<"failed to generate titles", "api error">>]
  ELSE [titles |-> IF ai = "combined"
                   THEN GenerateAllContent(AnswerText(outcome.answer)).titles
                   ELSE GenerateTitlesParsed(AnswerText(outcome.answer)),
        chatCalls |-> IF ai # "combined"
                         /\ Len(ParseTitles(AnswerText(outcome.answer))) < TitleCount
                      THEN 2 ELSE 1,
        err |-> NoErr]

\* AIService.GenerateTitles: the titles, the error, the number of API calls
GenerateTitles(ai, outcome) ==
  IF ~outcome.ok
  THEN [titles |-> <<>>, chatCalls |-> 1,
        err |-> IF ai = "combined"
                THEN <<"failed to generate titles", "failed to generate content", "api error">>
                ELSE <<"failed to generate titles", "api error">>]
  ELSE [titles |-> IF ai = "combined"
                   THEN GenerateAllContent(AnswerText(outcome.answer)).titles
                   ELSE GenerateTitlesParsed(AnswerText(outcome.answer)),
        chatCalls |-> 1, err |-> NoErr]

\* AIService.GenerateShowNotes: the show notes, the error, the number of API calls
GenerateShowNotes(ai, outcome) ==
  IF ~outcome.ok
  THEN [showNotes |-> <<>>, chatCalls |-> 1,
        err |-> IF ai = "combined"
                THEN <<"failed to generate show notes", "failed to generate content", "api error">>
                ELSE <<"failed to generate show notes", "api error">>]
  ELSE [showNotes |->
          CASE ai = "combined" -> GenerateAllContent(AnswerText(outcome.answer)).showNotes
            [] ai = "template" -> GenerateShowNotesTemplate(AnswerText(outcome.answer))
            [] ai = "paragraph" -> GenerateShowNotesParsed(AnswerText(outcome.answer)),
        chatCalls |-> 1, err |-> NoErr]

\* AIService.GenerateAdTimecodes: never fails, makes no API call
GenerateAdTimecodes(ai) == IF ai = "combined" THEN <<>> ELSE AdTimecodeDummies

\* what a GenerateCandidates that called GenerateTitles only saw of the API
TitleOnlyApi(titleOutcome, t) ==
  [titleCall |-> IF titleOutcome.ok THEN "ok" ELSE "failed",
   titleAnswer |-> titleOutcome.answer, titleChatCalls |-> t.chatCalls,
   noteCall |-> "none", noteAnswer |-> NoAnswer]

\* the same after GenerateShowNotes was called as well
WithNoteApi(a, noteOutcome) ==
  [a EXCEPT !.noteCall = IF noteOutcome.ok THEN "ok" ELSE "failed",
            !.noteAnswer = noteOutcome.answer]

(***************************************************************************)
(* ContentProcessor.GenerateCandidates, both revisions.  The result is the *)
(* returned pair (result, err), the calls made and what the API answered.  *)
(***************************************************************************)
\* mutant of GenerateCandidatesFlag: a show-note failure is returned
GenerateCandidatesFlag_NoteFatal(ai, generateShowNotes, titleOutcome, noteOutcome) ==
  LET t == GenerateTitles(ai, titleOutcome)
      n == GenerateShowNotes(ai, noteOutcome)
      titleOnly == TitleOnlyApi(titleOutcome, t)
  IN IF t.err # NoErr
     THEN [result |-> Nil, err |-> Wrap("failed to generate titles", t.err),
           chat |-> t.chatCalls, showNoteCalls |-> 0, api |-> titleOnly]
     ELSE IF ~generateShowNotes
     THEN [result |-> [Titles |-> t.titles, ShowNotes |-> <<>>, AdTimecodes |-> <<>>],
           err |-> NoErr, chat |-> t.chatCalls, showNoteCalls |-> 0, api |-> titleOnly]
     ELSE IF n.err # NoErr
     THEN [result |-> Nil, err |-> Wrap("failed to generate show notes", n.err),
           chat |-> t.chatCalls + n.chatCalls, showNoteCalls |-> 1,
           api |-> WithNoteApi(titleOnly, noteOutcome)]
     ELSE [result |-> [Titles |-> t.titles, ShowNotes |-> n.showNotes, AdTimecodes |-> <<>>],
           err |-> NoErr, chat |-> t.chatCalls + n.chatCalls, showNoteCalls |-> 1,
           api |-> WithNoteApi(titleOnly, noteOutcome)]

\* mutant of GenerateCandidatesFlag: the early return for titles only is missing
GenerateCandidatesFlag_IgnoreFlag(ai, generateShowNotes, titleOutcome, noteOutcome) ==
  LET t == GenerateTitles(ai, titleOutcome)
      n == GenerateShowNotes(ai, noteOutcome)
      titleOnly == TitleOnlyApi(titleOutcome, t)
  IN IF t.err # NoErr
     THEN [result |-> Nil, err |-> Wrap("failed to generate titles", t.err),
           chat |-> t.chatCalls, showNoteCalls |-> 0, api |-> titleOnly]
     ELSE [result |-> [Titles |-> t.titles,
                       ShowNotes |-> IF n.err # NoErr THEN <<>> ELSE n.showNotes,
                       AdTimecodes |-> <<>>],
           err |-> NoErr, chat |-> t.chatCalls + n.chatCalls, showNoteCalls |-> 1,
           api |-> WithNoteApi(titleOnly, noteOutcome)]

\* GenerateCandidates(transcript, generateShowNotes)
GenerateCandidatesFlag(ai, generateShowNotes, titleOutcome, noteOutcome) ==
  LET t == GenerateTitles(ai, titleOutcome)
      n == GenerateShowNotes(ai, noteOutcome)
      titleOnly == TitleOnlyApi(titleOutcome, t)
  IN IF t.err # NoErr
     THEN [result |-> Nil, err |-> Wrap("failed to generate titles", t.err),
           chat |-> t.chatCalls, showNoteCalls |-> 0, api |-> titleOnly]
     ELSE IF ~generateShowNotes
     THEN [result |-> [Titles |-> t.titles, ShowNotes |-> <<>>, AdTimecodes |-> <<>>],
           err |-> NoErr, chat |-> t.chatCalls, showNoteCalls |-> 0, api |-> titleOnly]
     ELSE [result |-> [Titles |-> t.titles,
                       ShowNotes |-> IF n.err # NoErr THEN <<>> ELSE n.showNotes,
                       AdTimecodes |-> <<>>],
           err |-> NoErr, chat |-> t.chatCalls + n.chatCalls, showNoteCalls |-> 1,
           api |-> WithNoteApi(titleOnly, noteOutcome)]

\* GenerateCandidates(transcript)
GenerateCandidatesLegacy(ai, titleOutcome, noteOutcome) ==
  LET t == GenerateTitles(ai, titleOutcome)
      n == GenerateShowNotes(ai, noteOutcome)
      titleOnly == TitleOnlyApi(titleOutcome, t)
  IN IF t.err # NoErr
     THEN [result |-> Nil, err |-> Wrap("failed to generate titles", t.err),
           chat |-> t.chatCalls, showNoteCalls |-> 0, api |-> titleOnly]
     ELSE IF n.err # NoErr
     THEN [result |-> Nil, err |-> Wrap("failed to generate show notes", n.err),
           chat |-> t.chatCalls + n.chatCalls, showNoteCalls |-> 1,
           api |-> WithNoteApi(titleOnly, noteOutcome)]
     ELSE [result |-> [Titles |-> t.titles, ShowNotes |-> n.showNotes,
                       AdTimecodes |-> GenerateAdTimecodes(ai)],
           err |-> NoErr, chat |-> t.chatCalls + n.chatCalls, showNoteCalls |-> 1,
           api |-> WithNoteApi(titleOnly, noteOutcome)]

\* mutant of GenShownotesArg: --titles-only does not override --gen-shownotes
GenShownotesArg_NoOverride(f) == f.genShownotes

\* the generateShowNotes argument the current command passes
GenShownotesArg(f) == IF f.titlesOnly THEN FALSE ELSE f.genShownotes

\* step 4 of process-transcript: call GenerateCandidates, return its error
GenerateCandidates ==
  /\ cmd \in {"process", "step1"}
  /\ pc = "loaded"
  /\ \E titleOutcome \in Outcomes(TitleAnswers(build.ai)),
        noteOutcome \in Outcomes(NoteAnswers(build.ai)) :
       LET g == IF build.proc = "current"
                THEN GenerateCandidatesFlag(build.ai, GenShownotesArg(flags),
                                            titleOutcome, noteOutcome)
                ELSE GenerateCandidatesLegacy(build.ai, titleOutcome, noteOutcome)
       IN /\ calls' = [calls EXCEPT !.chat = @ + g.chat, !.generateTitles = @ + 1,
                                    !.generateShowNotes = @ + g.showNoteCalls]
          /\ api' = g.api
          /\ IF g.err # NoErr
             THEN Fail(Wrap("content generation failed", g.err)) /\ UNCHANGED candidates
             ELSE pc' = "generated" /\ candidates' = g.result /\ UNCHANGED err
  /\ trace' = Append(trace, Op("GenerateCandidates",
                               IF build.proc = "current"
                               THEN <<ToString(GenShownotesArg(flags))>> ELSE <<>>))
  /\ UNCHANGED <<build, cmd, flags, env, selected, files, requests, input, post, exit>>


(***************************************************************************)
(* InteractiveUI.SelectContent, three revisions.  The result is the        *)
(* returned pair (selected, err).                                          *)
(***************************************************************************)
\* mutant of SelectContentDisplay: takes the last title instead of the first
SelectContentDisplay_LastTitle(c) ==
  [selected |-> [Title |-> IF Len(c.Titles) > 0 THEN c.Titles[Len(c.Titles)] ELSE <<>>,
                 ShowNote |-> IF Len(c.ShowNotes) > 0 THEN c.ShowNotes[1] ELSE <<>>,
                 AdTimecodes |-> <<>>],
   err |-> NoErr]

\* display-only revision: print everything, take the first candidates
SelectContentDisplay(c) ==
  [selected |-> [Title |-> IF Len(c.Titles) > 0 THEN c.Titles[1] ELSE <<>>,
                 ShowNote |-> IF Len(c.ShowNotes) > 0 THEN c.ShowNotes[1] ELSE <<>>,
                 AdTimecodes |-> <<>>],
   err |-> NoErr]

\* texts the user may type into an edit prompt
EditedTexts == {<<>>, <<"e", "d">>}

\* indexes the user may pick in a survey.Select over n options
PickChoices(n) == IF n = 0 THEN {} ELSE {0, n - 1}

\* number of proposals the user changes
Changes(in) ==
  (IF in.titleIndex # 0 THEN 1 ELSE 0) + (IF in.editTitle THEN 1 ELSE 0)
  + (IF in.showNoteIndex # 0 THEN 1 ELSE 0) + (IF in.editShowNote THEN 1 ELSE 0)
  + (IF in.adIndex # 0 THEN 1 ELSE 0)

\* What the user does at the prompts: failAt is the prompt at which
\* survey.AskOne returns an error (terminal closed, interrupt), "none" when
\* every prompt is answered.  A survey.Select without options is an error.
UserInputs(c) ==
  {[failAt |-> f, titleIndex |-> 0, editTitle |-> FALSE, editedTitle |-> <<>>,
    showNoteIndex |-> 0, editShowNote |-> FALSE, editedShowNote |-> <<>>,
    adIndex |-> 0, confirm |-> FALSE] :
     f \in {"title selection", "title edit confirmation", "title editing",
            "show note selection", "show note edit confirmation", "show note editing",
            "ad timecode selection", "final confirmation", "none"}}
  \cup
  {in \in [failAt : {"none"}, titleIndex : PickChoices(Len(c.Titles)),
           editTitle : BOOLEAN, editedTitle : EditedTexts,
           showNoteIndex : PickChoices(Len(c.ShowNotes)),
           editShowNote : BOOLEAN, editedShowNote : EditedTexts,
           adIndex : PickChoices(Len(c.AdTimecodes)), confirm : {TRUE}] :
     /\ Changes(in) <= MaxEdits
     /\ ~in.editTitle => in.editedTitle = <<>>
     /\ ~in.editShowNote => in.editedShowNote = <<>>}

\* the display-only revision asks nothing
NoInput ==
  [failAt |-> "none", titleIndex |-> 0, editTitle |-> FALSE, editedTitle |-> <<>>,
   showNoteIndex |-> 0, editShowNote |-> FALSE, editedShowNote |-> <<>>,
   adIndex |-> 0, confirm |-> TRUE]

PromptFailed(what) == [selected |-> Nil, err |-> <<what \o " failed", "prompt error">>]

\* mutant of SelectContentPropose: a declined confirmation still returns the record
SelectContentPropose_IgnoresConfirm(c, in) ==
  LET title0 == IF Len(c.Titles) > 0 THEN c.Titles[1] ELSE <<>>
      note0 == IF Len(c.ShowNotes) > 0 THEN c.ShowNotes[1] ELSE <<>>
  IN IF in.failAt \in {"title edit confirmation", "title editing",
                       "show note edit confirmation", "show note editing",
                       "final confirmation"}
     THEN PromptFailed(in.failAt)
     ELSE IF in.failAt = "ad timecode selection" \/ Len(c.AdTimecodes) = 0
     THEN PromptFailed("ad timecode selection")
     ELSE [selected |-> [Title |-> IF in.editTitle THEN in.editedTitle ELSE title0,
                         ShowNote |-> IF in.editShowNote THEN in.editedShowNote ELSE note0,
                         AdTimecodes |-> c.AdTimecodes[in.adIndex + 1]],
           err |-> NoErr]

\* revision that proposes the first candidates, lets the user edit them and
\* pick the ad timecodes, and asks for confirmation
\* mutant of SelectContentPropose: the edited title is not stored
SelectContentPropose_DropsTitleEdit(c, in) ==
  LET title0 == IF Len(c.Titles) > 0 THEN c.Titles[1] ELSE <<>>
      note0 == IF Len(c.ShowNotes) > 0 THEN c.ShowNotes[1] ELSE <<>>
  IN IF in.failAt \in {"title edit confirmation", "title editing",
                       "show note edit confirmation", "show note editing",
                       "final confirmation"}
     THEN PromptFailed(in.failAt)
     ELSE IF in.failAt = "ad timecode selection" \/ Len(c.AdTimecodes) = 0
     THEN PromptFailed("ad timecode selection")
     ELSE IF ~in.confirm
     THEN [selected |-> Nil, err |-> <<"user cancelled the operation">>]
     ELSE [selected |-> [Title |-> title0,
                         ShowNote |-> IF in.editShowNote THEN in.editedShowNote ELSE note0,
                         AdTimecodes |-> c.AdTimecodes[in.adIndex + 1]],
           err |-> NoErr]

SelectContentPropose(c, in) ==
  LET title0 == IF Len(c.Titles) > 0 THEN c.Titles[1] ELSE <<>>
      note0 == IF Len(c.ShowNotes) > 0 THEN c.ShowNotes[1] ELSE <<>>
  IN IF in.failAt \in {"title edit confirmation", "title editing",
                       "show note edit confirmation", "show note editing",
                       "final confirmation"}
     THEN PromptFailed(in.failAt)
     ELSE IF in.failAt = "ad timecode selection" \/ Len(c.AdTimecodes) = 0
     THEN PromptFailed("ad timecode selection")
     ELSE IF ~in.confirm
     THEN [selected |-> Nil, err |-> <<"user cancelled the operation">>]
     ELSE [selected |-> [Title |-> IF in.editTitle THEN in.editedTitle ELSE title0,
                         ShowNote |-> IF in.editShowNote THEN in.editedShowNote ELSE note0,
                         AdTimecodes |-> c.AdTimecodes[in.adIndex + 1]],
           err |-> NoErr]

\* mutant of SelectContentChoose: a declined confirmation still returns the record
SelectContentChoose_IgnoresConfirm(c, in) ==
  IF in.failAt = "title selection" \/ Len(c.Titles) = 0
  THEN PromptFailed("title selection")
  ELSE IF in.failAt = "title edit confirmation" \/ in.failAt = "title editing"
  THEN PromptFailed(in.failAt)
  ELSE IF in.failAt = "show note selection" \/ Len(c.ShowNotes) = 0
  THEN PromptFailed("show note selection")
  ELSE IF in.failAt = "show note edit confirmation" \/ in.failAt = "show note editing"
  THEN PromptFailed(in.failAt)
  ELSE IF in.failAt = "ad timecode selection" \/ Len(c.AdTimecodes) = 0
  THEN PromptFailed("ad timecode selection")
  ELSE IF in.failAt = "final confirmation"
  THEN PromptFailed(in.failAt)
  ELSE [selected |-> [Title |-> IF in.editTitle THEN in.editedTitle
                                ELSE c.Titles[in.titleIndex + 1],
                      ShowNote |-> IF in.editShowNote THEN in.editedShowNote
                                   ELSE c.ShowNotes[in.showNoteIndex + 1],
                      AdTimecodes |-> c.AdTimecodes[in.adIndex + 1]],
        err |-> NoErr]

\* revision that lets the user choose title and show note from the lists
SelectContentChoose(c, in) ==
  IF in.failAt = "title selection" \/ Len(c.Titles) = 0
  THEN PromptFailed("title selection")
  ELSE IF in.failAt = "title edit confirmation" \/ in.failAt = "title editing"
  THEN PromptFailed(in.failAt)
  ELSE IF in.failAt = "show note selection" \/ Len(c.ShowNotes) = 0
  THEN PromptFailed("show note selection")
  ELSE IF in.failAt = "show note edit confirmation" \/ in.failAt = "show note editing"
  THEN PromptFailed(in.failAt)
  ELSE IF in.failAt = "ad timecode selection" \/ Len(c.AdTimecodes) = 0
  THEN PromptFailed("ad timecode selection")
  ELSE IF in.failAt = "final confirmation"
  THEN PromptFailed(in.failAt)
  ELSE IF ~in.confirm
  THEN [selected |-> Nil, err |-> <<"user cancelled the operation">>]
  ELSE [selected |-> [Title |-> IF in.editTitle THEN in.editedTitle
                                ELSE c.Titles[in.titleIndex + 1],
                      ShowNote |-> IF in.editShowNote THEN in.editedShowNote
                                   ELSE c.ShowNotes[in.showNoteIndex + 1],
                      AdTimecodes |-> c.AdTimecodes[in.adIndex + 1]],
        err |-> NoErr]

\* the SelectContent of the given revision
SelectContent(ui, c, in) ==
  CASE ui = "display" -> SelectContentDisplay(c)
    [] ui = "propose" -> SelectContentPropose(c, in)
    [] ui = "choose" -> SelectContentChoose(c, in)

\* the non-interactive branch of the legacy command: index 0 of each list,
\* without a length check; indexing an empty slice is a runtime panic
AutoSelect(c) ==
  IF Len(c.Titles) = 0 \/ Len(c.ShowNotes) = 0 \/ Len(c.AdTimecodes) = 0
  THEN [selected |-> Nil, panic |-> TRUE]
  ELSE [selected |-> [Title |-> c.Titles[1], ShowNote |-> c.ShowNotes[1],
                      AdTimecodes |-> c.AdTimecodes[1]],
        panic |-> FALSE]

\* the run auto-selects: the current command always does, the legacy one
\* under --non-interactive
NonInteractive == build.proc = "current" \/ flags.nonInteractive

\* mutant of Select: the selection may run a second time
Select_Again ==
  /\ cmd \in {"process", "step1"}
  /\ pc \in {"generated", "selected"}
  /\ IF build.proc = "legacy" /\ flags.nonInteractive
     THEN LET a == AutoSelect(candidates)
          IN /\ selected' = a.selected
             /\ pc' = IF a.panic THEN "panicked" ELSE "selected"
             /\ trace' = Append(trace, Op("AutoSelect", <<>>))
             /\ UNCHANGED <<err, calls, input>>
     ELSE \E in \in IF build.ui = "display" THEN {NoInput} ELSE UserInputs(candidates) :
            LET r == SelectContent(build.ui, candidates, in)
            IN /\ calls' = [calls EXCEPT !.selectContent = @ + 1]
               /\ trace' = Append(trace, Op("SelectContent", <<>>))
               /\ input' = in
               /\ IF r.err # NoErr
                  THEN /\ Fail(Wrap(IF build.proc = "current" THEN "content display failed"
                                    ELSE "interactive selection failed", r.err))
                       /\ UNCHANGED selected
                  ELSE pc' = "selected" /\ selected' = r.selected /\ UNCHANGED err
  /\ UNCHANGED <<build, cmd, flags, env, candidates, files, api, requests, post, exit>>

\* step 5 of process-transcript
Select ==
  /\ cmd \in {"process", "step1"}
  /\ pc = "generated"
  /\ IF build.proc = "legacy" /\ flags.nonInteractive
     THEN LET a == AutoSelect(candidates)
          IN /\ selected' = a.selected
             /\ pc' = IF a.panic THEN "panicked" ELSE "selected"
             /\ trace' = Append(trace, Op("AutoSelect", <<>>))
             /\ UNCHANGED <<err, calls, input>>
     ELSE \E in \in IF build.ui = "display" THEN {NoInput} ELSE UserInputs(candidates) :
            LET r == SelectContent(build.ui, candidates, in)
            IN /\ calls' = [calls EXCEPT !.selectContent = @ + 1]
               /\ trace' = Append(trace, Op("SelectContent", <<>>))
               /\ input' = in
               /\ IF r.err # NoErr
                  THEN /\ Fail(Wrap(IF build.proc = "current" THEN "content display failed"
                                    ELSE "interactive selection failed", r.err))
                       /\ UNCHANGED selected
                  ELSE pc' = "selected" /\ selected' = r.selected /\ UNCHANGED err
  /\ UNCHANGED <<build, cmd, flags, env, candidates, files, api, requests, post, exit>>


(***************************************************************************)
(* Saving the output files (steps 5 and 6 of process-transcript, the end   *)
(* of step1).  A failed write is logged as a warning only.                 *)
(***************************************************************************)
\* the command writes all_candidates.txt: the current one always, the legacy
\* one only in its non-interactive branch
WritesAllCandidates == build.proc = "current" \/ flags.nonInteractive

\* mutant of SaveOutputs: a failed write is returned as an error
SaveOutputs_WriteFailureAborts ==
  /\ cmd \in {"process", "step1"}
  /\ pc = "selected"
  /\ \E candidatesWritten \in BOOLEAN, selectionWritten \in BOOLEAN :
       LET all == IF flags.outputDir # <<>> /\ WritesAllCandidates /\ candidatesWritten
                  THEN {"all_candidates.txt"} ELSE {}
           sel == IF flags.outputDir # <<>> /\ selectionWritten
                  THEN {IF cmd = "step1" THEN "selected_content.txt" ELSE "selection.txt"}
                  ELSE {}
       IN IF flags.outputDir # <<>> /\ ~(candidatesWritten /\ selectionWritten)
          THEN Fail(<<"failed to save output file", "write error">>) /\ files' = files \cup all
          ELSE IF cmd = "step1"
          THEN pc' = "done" /\ files' = files \cup all \cup sel /\ UNCHANGED err
          ELSE IF build.proc = "current" /\ flags.apiOnly
          THEN pc' = "done" /\ files' = files \cup all /\ UNCHANGED err
          ELSE pc' = "saved" /\ files' = files \cup all \cup sel /\ UNCHANGED err
  /\ UNCHANGED <<build, cmd, flags, env, candidates, selected, calls, api>>
  /\ UNCHANGED <<requests, trace, input, post, exit>>

\* mutant of SaveOutputs: --api-only does not return before the upload
SaveOutputs_IgnoresApiOnly ==
  /\ cmd \in {"process", "step1"}
  /\ pc = "selected"
  /\ \E candidatesWritten \in BOOLEAN, selectionWritten \in BOOLEAN :
       LET all == IF flags.outputDir # <<>> /\ WritesAllCandidates /\ candidatesWritten
                  THEN {"all_candidates.txt"} ELSE {}
           sel == IF flags.outputDir # <<>> /\ selectionWritten
                  THEN {IF cmd = "step1" THEN "selected_content.txt" ELSE "selection.txt"}
                  ELSE {}
       IN IF cmd = "step1"
          THEN pc' = "done" /\ files' = files \cup all \cup sel
          ELSE pc' = "saved" /\ files' = files \cup all \cup sel
  /\ UNCHANGED <<build, cmd, flags, env, candidates, selected, err, calls, api>>
  /\ UNCHANGED <<requests, trace, input, post, exit>>

SaveOutputs ==
  /\ cmd \in {"process", "step1"}
  /\ pc = "selected"
  /\ \E candidatesWritten \in BOOLEAN, selectionWritten \in BOOLEAN :
       LET all == IF flags.outputDir # <<>> /\ WritesAllCandidates /\ candidatesWritten
                  THEN {"all_candidates.txt"} ELSE {}
           sel == IF flags.outputDir # <<>> /\ selectionWritten
                  THEN {IF cmd = "step1" THEN "selected_content.txt" ELSE "selection.txt"}
                  ELSE {}
       IN IF cmd = "step1"
          THEN pc' = "done" /\ files' = files \cup all \cup sel
          ELSE IF build.proc = "current" /\ flags.apiOnly
          THEN pc' = "done" /\ files' = files \cup all
          ELSE pc' = "saved" /\ files' = files \cup all \cup sel
  /\ UNCHANGED <<build, cmd, flags, env, candidates, selected, err, calls, api>>
  /\ UNCHANGED <<requests, trace, input, post, exit>>

(***************************************************************************)
(* step2: reading the selected content back from the file step1 wrote.     *)
(***************************************************************************)
\* the text step1 writes to selected_content.txt; "Title: " and
\* "Show Notes:" are kept as one token each
SelectedContentFile(title, showNote) ==
  <<"=== Selected Content ===", "\n", "Title: ">> \o title
  \o <<"\n", "\n", "Show Notes:", "\n">> \o showNote

\* titles and show notes step1 may have selected: plain, empty, with blanks
\* around, and a title that itself holds the text "Show Notes:"
SelectedTitles ==
  {<<"a">>, <<>>, <<" ", "a", " ", "b", " ">>, <<"a", " ", "Show Notes:", " ", "b">>}

SelectedShowNotes == {<<>>, <<"n", "\n", "m", "\n">>}

\* what the file named by --content-file can hold: files step1 wrote, an
\* empty file, and a file with the two markers in the other order
ContentFiles ==
  {SelectedContentFile(t, n) : t \in SelectedTitles, n \in SelectedShowNotes}
  \cup {<<>>, <<"Show Notes:", "\n", "n", "\n", "Title: ", "a">>}

\* the parse of the content file in Step2Cmd
ParseContentFile(contentStr) ==
  LET titleStart == Index(contentStr, <<"Title: ">>)
      showNotesStart == Index(contentStr, <<"Show Notes:">>)
  IN IF titleStart >= 0 /\ showNotesStart > titleStart
     THEN [selected |-> [Title |-> TrimSpace(Slice(contentStr, titleStart + 1,
                                                   showNotesStart)),
                         ShowNote |-> TrimSpace(SliceFrom(contentStr, showNotesStart + 1)),
                         AdTimecodes |-> <<>>],
           err |-> NoErr]
     ELSE [selected |-> Nil,
           err |-> <<"failed to parse content file, expected format not found">>]

Step2Load ==
  /\ cmd = "step2"
  /\ pc = "configured"
  /\ IF flags.contentFile = <<>>
     THEN Fail(<<"content file is required">>) /\ UNCHANGED <<selected, trace>>
     ELSE \E readOk \in BOOLEAN, content \in ContentFiles :
            IF ~readOk
            THEN /\ Fail(<<"failed to read content file", "read error">>)
                 /\ UNCHANGED <<selected, trace>>
            ELSE /\ trace' = Append(trace, Op("ReadFile", <<content>>))
                 /\ LET p == ParseContentFile(content)
                    IN IF p.err # NoErr
                       THEN Fail(p.err) /\ UNCHANGED selected
                       ELSE pc' = "parsed" /\ selected' = p.selected /\ UNCHANGED err
  /\ UNCHANGED <<build, cmd, flags, env, candidates, files, calls, api>>
  /\ UNCHANGED <<requests, input, post, exit>>

(***************************************************************************)
(* Art19Service and Art19Processor.UploadDraft, both revisions.            *)
(***************************************************************************)
\* outcomes of an HTTP request that was handed to the client: a transport
\* error, or a response status
HttpOutcomes ==
  {[built |-> TRUE, sent |-> FALSE, status |-> 0]}
  \cup {[built |-> TRUE, sent |-> TRUE, status |-> c] : c \in {199, 200, 204, 299, 300, 500}}

\* http.NewRequestWithContext rejects the URL: there is no request
BadURL == [built |-> FALSE, sent |-> FALSE, status |-> 0]

\* placeholder where the code sends no HTTP request
NoHttp == [built |-> TRUE, sent |-> FALSE, status |-> 0]

\* Art19Service.PublishEpisode: a placeholder that always fails
PublishEpisode(audioPath, title, description) == <<"Art19 publishing not yet implemented">>

\* Art19Service.UploadDraftTitle: the error and the HTTP requests it sent
UploadDraftTitle(e, title, http) ==
  LET r == <<Request("POST", "localhost:3001/run-script", "json", http)>>
  IN IF "ART19_EPISODE_NEW_URL" \notin e
     THEN [err |-> <<"ART19_EPISODE_NEW_URL is not set">>, http |-> 0, requests |-> <<>>]
     ELSE IF ~http.sent
     THEN [err |-> <<"failed to call Playwright MCP server", "transport error">>,
           http |-> 1, requests |-> r]
     ELSE IF http.status # 200
     THEN [err |-> <<"Playwright MCP server error", "response body">>,
           http |-> 1, requests |-> r]
     ELSE [err |-> NoErr, http |-> 1, requests |-> r]

\* mutant of UploadDraft: the check of the audio path is missing
UploadDraft_AlwaysPublish(rev, e, audioPath, content, http) ==
  [err |-> Wrap("failed to upload to Art19",
                PublishEpisode(audioPath, content.Title, content.ShowNote)),
   publishEpisode |-> 1, uploadDraftTitle |-> 0, http |-> 0, requests |-> <<>>,
   ops |-> <<Op("PublishEpisode", <<audioPath, content.Title, content.ShowNote>>)>>]

\* mutant of UploadDraft: PublishEpisode is tried a second time when it fails
UploadDraft_Retry(rev, e, audioPath, content, http) ==
  IF audioPath = <<>>
  THEN IF rev = "skip"
       THEN [err |-> NoErr, publishEpisode |-> 0, uploadDraftTitle |-> 0, http |-> 0,
             requests |-> <<>>, ops |-> <<>>]
       ELSE LET d == UploadDraftTitle(e, content.Title, http)
            IN [err |-> IF d.err # NoErr
                        THEN Wrap("failed to upload draft title to Art19", d.err)
                        ELSE NoErr,
                publishEpisode |-> 0, uploadDraftTitle |-> 1, http |-> d.http,
                requests |-> d.requests,
                ops |-> <<Op("UploadDraftTitle", <<content.Title>>)>>]
  ELSE [err |-> Wrap("failed to upload to Art19",
                     PublishEpisode(audioPath, content.Title, content.ShowNote)),
        publishEpisode |-> 2, uploadDraftTitle |-> 0, http |-> 0, requests |-> <<>>,
        ops |-> <<Op("PublishEpisode", <<audioPath, content.Title, content.ShowNote>>),
                  Op("PublishEpisode", <<audioPath, content.Title, content.ShowNote>>)>>]

\* UploadDraft: the error, the calls it made on the Art19Service and the
\* HTTP requests those sent
UploadDraft(rev, e, audioPath, content, http) ==
  IF audioPath = <<>>
  THEN IF rev = "skip"
       THEN [err |-> NoErr, publishEpisode |-> 0, uploadDraftTitle |-> 0, http |-> 0,
             requests |-> <<>>, ops |-> <<>>]
       ELSE LET d == UploadDraftTitle(e, content.Title, http)
            IN [err |-> IF d.err # NoErr
                        THEN Wrap("failed to upload draft title to Art19", d.err)
                        ELSE NoErr,
                publishEpisode |-> 0, uploadDraftTitle |-> 1, http |-> d.http,
                requests |-> d.requests,
                ops |-> <<Op("UploadDraftTitle", <<content.Title>>)>>]
  ELSE LET p == PublishEpisode(audioPath, content.Title, content.ShowNote)
       IN [err |-> IF p # NoErr THEN Wrap("failed to upload to Art19", p) ELSE NoErr,
           publishEpisode |-> 1, uploadDraftTitle |-> 0, http |-> 0, requests |-> <<>>,
           ops |-> <<Op("PublishEpisode", <<audioPath, content.Title, content.ShowNote>>)>>]

\* the outcomes of the HTTP request UploadDraft sends, if it sends one
UploadHttpOutcomes(rev, e, audioPath) ==
  IF rev = "draftTitle" /\ audioPath = <<>> /\ "ART19_EPISODE_NEW_URL" \in e
  THEN HttpOutcomes ELSE {NoHttp}

\* mutant of Upload: --skip-upload is not looked at
Upload_IgnoresSkipUpload ==
  /\ \/ cmd = "process" /\ pc = "saved"
     \/ cmd = "step2" /\ pc = "parsed"
  /\ \E http \in UploadHttpOutcomes(build.upload, env, flags.inputAudio) :
       LET u == UploadDraft(build.upload, env, flags.inputAudio, selected, http)
       IN /\ calls' = [calls EXCEPT !.uploadDraft = @ + 1,
                                    !.publishEpisode = @ + u.publishEpisode,
                                    !.uploadDraftTitle = @ + u.uploadDraftTitle,
                                    !.http = @ + u.http]
          /\ requests' = requests \o u.requests
          /\ trace' = Append(trace, Op("UploadDraft",
                                       <<flags.inputAudio, selected.Title,
                                         selected.ShowNote>>)) \o u.ops
          /\ IF u.err # NoErr
             THEN Fail(Wrap("Art19 upload failed", u.err))
             ELSE pc' = "done" /\ UNCHANGED err
  /\ UNCHANGED <<build, cmd, flags, env, candidates, selected, files, api, input, post, exit>>

\* step 7 of process-transcript, and the upload of step2
Upload ==
  /\ \/ cmd = "process" /\ pc = "saved"
     \/ cmd = "step2" /\ pc = "parsed"
  /\ IF cmd = "process" /\ build.proc = "current" /\ flags.skipUpload
     THEN pc' = "done" /\ UNCHANGED <<err, calls, requests, trace>>
     ELSE \E http \in UploadHttpOutcomes(build.upload, env, flags.inputAudio) :
            LET u == UploadDraft(build.upload, env, flags.inputAudio, selected, http)
            IN /\ calls' = [calls EXCEPT !.uploadDraft = @ + 1,
                                         !.publishEpisode = @ + u.publishEpisode,
                                         !.uploadDraftTitle = @ + u.uploadDraftTitle,
                                         !.http = @ + u.http]
               /\ requests' = requests \o u.requests
               /\ trace' = Append(trace, Op("UploadDraft",
                                            <<flags.inputAudio, selected.Title,
                                              selected.ShowNote>>)) \o u.ops
               /\ IF u.err # NoErr
                  THEN Fail(Wrap("Art19 upload failed", u.err))
                  ELSE pc' = "done" /\ UNCHANGED err
  /\ UNCHANGED <<build, cmd, flags, env, candidates, selected, files, api, input, post, exit>>

(***************************************************************************)
(* step3: VercelService.TriggerRedeploy and Step3Cmd.                      *)
(***************************************************************************)
\* mutant of TriggerRedeploy: only status 200 counts as success
TriggerRedeploy_Only200(deployHookSet, http) ==
  LET r == <<Request("POST", "VERCEL_DEPLOY_HOOK", "none", http)>>
  IN IF ~deployHookSet
     THEN [err |-> <<"Vercel deploy hook URL is not configured">>, http |-> 0, requests |-> <<>>]
     ELSE IF ~http.built
     THEN [err |-> <<"failed to create request", "url error">>, http |-> 0, requests |-> <<>>]
     ELSE IF ~http.sent
     THEN [err |-> <<"failed to send request", "transport error">>, http |-> 1, requests |-> r]
     ELSE IF http.status # 200
     THEN [err |-> <<"unexpected status code", ToString(http.status)>>,
           http |-> 1, requests |-> r]
     ELSE [err |-> NoErr, http |-> 1, requests |-> r]

\* mutant of TriggerRedeploy: the error carries the response body, not the status
TriggerRedeploy_BodyInError(deployHookSet, http) ==
  LET r == <<Request("POST", "VERCEL_DEPLOY_HOOK", "none", http)>>
  IN IF ~deployHookSet
     THEN [err |-> <<"Vercel deploy hook URL is not configured">>, http |-> 0, requests |-> <<>>]
     ELSE IF ~http.built
     THEN [err |-> <<"failed to create request", "url error">>, http |-> 0, requests |-> <<>>]
     ELSE IF ~http.sent
     THEN [err |-> <<"failed to send request", "transport error">>, http |-> 1, requests |-> r]
     ELSE IF http.status < 200 \/ http.status >= 300
     THEN [err |-> <<"unexpected status code", "response body">>,
           http |-> 1, requests |-> r]
     ELSE [err |-> NoErr, http |-> 1, requests |-> r]

\* TriggerRedeploy: the error and the HTTP requests sent
TriggerRedeploy(deployHookSet, http) ==
  LET r == <<Request("POST", "VERCEL_DEPLOY_HOOK", "none", http)>>
  IN IF ~deployHookSet
     THEN [err |-> <<"Vercel deploy hook URL is not configured">>, http |-> 0, requests |-> <<>>]
     ELSE IF ~http.built
     THEN [err |-> <<"failed to create request", "url error">>, http |-> 0, requests |-> <<>>]
     ELSE IF ~http.sent
     THEN [err |-> <<"failed to send request", "transport error">>, http |-> 1, requests |-> r]
     ELSE IF http.status < 200 \/ http.status >= 300
     THEN [err |-> <<"unexpected status code", ToString(http.status)>>,
           http |-> 1, requests |-> r]
     ELSE [err |-> NoErr, http |-> 1, requests |-> r]

\* mutant of Step3Run: the dry-run flag is not looked at
Step3Run_IgnoreDryRun(e, dryRun, http) ==
  LET deployHookSet == "VERCEL_DEPLOY_HOOK" \in e
      t == TriggerRedeploy(deployHookSet, http)
  IN IF ~deployHookSet
     THEN [err |-> <<"Vercel deploy hook URL is not configured. Please set the VERCEL_DEPLOY_HOOK environment variable">>,
           http |-> 0, requests |-> <<>>]
     ELSE [err |-> IF t.err # NoErr
                   THEN Wrap("failed to trigger Vercel redeployment", t.err) ELSE NoErr,
           http |-> t.http, requests |-> t.requests]

\* Step3Cmd's RunE: the error and the HTTP requests sent
Step3Run(e, dryRun, http) ==
  LET deployHookSet == "VERCEL_DEPLOY_HOOK" \in e
      t == TriggerRedeploy(deployHookSet, http)
  IN IF ~deployHookSet
     THEN [err |-> <<"Vercel deploy hook URL is not configured. Please set the VERCEL_DEPLOY_HOOK environment variable">>,
           http |-> 0, requests |-> <<>>]
     ELSE IF dryRun
     THEN [err |-> NoErr, http |-> 0, requests |-> <<>>]
     ELSE [err |-> IF t.err # NoErr
                   THEN Wrap("failed to trigger Vercel redeployment", t.err) ELSE NoErr,
           http |-> t.http, requests |-> t.requests]

\* the outcomes of the HTTP request step3 sends, if it gets to send one: the
\* value of VERCEL_DEPLOY_HOOK may be a string that is no URL
Step3HttpOutcomes(e, dryRun) ==
  IF "VERCEL_DEPLOY_HOOK" \in e /\ ~dryRun THEN HttpOutcomes \cup {BadURL} ELSE {NoHttp}

\* the value of VERCEL_DEPLOY_HOOK when it is a URL
HookURL == <<"VERCEL_DEPLOY_HOOK">>

Step3 ==
  /\ cmd = "step3"
  /\ pc = "start"
  /\ \E http \in Step3HttpOutcomes(env, flags.dryRun) :
       LET r == Step3Run(env, flags.dryRun, http)
       IN /\ calls' = [calls EXCEPT !.http = @ + r.http]
          /\ requests' = requests \o r.requests
          /\ trace' = IF "VERCEL_DEPLOY_HOOK" \in env /\ ~flags.dryRun
                       THEN Append(trace, Op("TriggerRedeploy",
                                             <<IF http.built THEN HookURL ELSE <<"not a URL">>>>))
                       ELSE trace
          /\ IF r.err # NoErr THEN Fail(r.err) ELSE pc' = "done" /\ UNCHANGED err
  /\ UNCHANGED <<build, cmd, flags, env, candidates, selected, files, api, input, post, exit>>

(***************************************************************************)
(* step4: SNSService and Step4Cmd.                                         *)
(***************************************************************************)
\* fixed pieces of text, each kept as one token
SpotifyEpisodePrefix == "https://open.spotify.com/episode/"
AppleEpisodePrefix == "https://podcasts.apple.com/us/podcast/"
AppleShowId == "/id1589345170?i="
Quote == "quote"

\* [a-zA-Z0-9] over the characters the pages are made of
AlnumChars == {"a", "b", "1", "2"}

IsAlnum(c) == c \in AlnumChars

\* the end of the run of characters of the class chars that starts at from
RunEnd(s, from, chars) ==
  Max({k \in (from - 1)..Len(s) : \A m \in from..k : s[m] \in chars})

\* regexp `https://open\.spotify\.com/episode/[a-zA-Z0-9]+`: the leftmost
\* match in body, <<>> when there is none
FindSpotify(body) ==
  LET starts == {i \in 1..(Len(body) - 1) :
                   body[i] = SpotifyEpisodePrefix /\ IsAlnum(body[i + 1])}
  IN IF starts = {} THEN <<>>
     ELSE LET i == Min(starts) IN SubSeq(body, i, RunEnd(body, i + 1, AlnumChars))

\* regexp `https://podcasts\.apple\.com/us/podcast/[^"]+/id1589345170\?i=[0-9]+`:
\* the leftmost match, its [^"]+ as long as possible
FindApple(body) ==
  LET IsId(i, j) == /\ j > i + 1 /\ j < Len(body)
                    /\ body[j] = AppleShowId /\ IsDigit(body[j + 1])
                    /\ \A k \in (i + 1)..(j - 1) : body[k] # Quote
      starts == {i \in 1..Len(body) :
                   body[i] = AppleEpisodePrefix /\ \E j \in 1..Len(body) : IsId(i, j)}
  IN IF starts = {} THEN <<>>
     ELSE LET i == Min(starts)
              j == Max({k \in 1..Len(body) : IsId(i, k)})
          IN SubSeq(body, i, RunEnd(body, j + 1, DigitChars))

\* what fetching a show page gave: no request could be built, the request
\* failed, the body could not be read, or a page (whatever its status)
NoPage == [built |-> FALSE, sent |-> FALSE, status |-> 0, readOk |-> FALSE, body |-> <<>>]

PageBodies ==
  {<<>>, <<"a", "b">>,
   <<SpotifyEpisodePrefix>>,
   <<"a", SpotifyEpisodePrefix, "a", "1", "?", "b", Quote, SpotifyEpisodePrefix, "b">>,
   <<AppleEpisodePrefix, AppleShowId, "1">>,
   <<AppleEpisodePrefix, "a", "/id999?i=", "1", Quote>>,
   <<Quote, AppleEpisodePrefix, "a", "b", AppleShowId, "1", "2", Quote, "a">>}

PageOutcomes ==
  {NoPage,
   [built |-> TRUE, sent |-> FALSE, status |-> 0, readOk |-> FALSE, body |-> <<>>],
   [built |-> TRUE, sent |-> TRUE, status |-> 200, readOk |-> FALSE, body |-> <<>>]}
  \cup [built : {TRUE}, sent : {TRUE}, status : {200}, readOk : {TRUE}, body : PageBodies]
  \cup [built : {TRUE}, sent : {TRUE}, status : {404}, readOk : {TRUE},
        body : {<<"a", "b">>}]

\* the HTTP request behind a page outcome, as logged in requests
PageRequest(target, page) ==
  IF page.built
  THEN <<Request("GET", target, "none",
                 [built |-> TRUE, sent |-> page.sent, status |-> page.status])>>
  ELSE <<>>

\* mutant of GetLatestSpotifyURL: no show URL when the page has no episode link
GetLatestSpotifyURL_NoFallback(showURL, page) ==
  IF ~page.built
  THEN [url |-> <<>>, err |-> <<"failed to create request for Spotify", "url error">>]
  ELSE IF ~page.sent
  THEN [url |-> <<>>, err |-> <<"failed to fetch Spotify show page", "transport error">>]
  ELSE IF ~page.readOk
  THEN [url |-> <<>>, err |-> <<"failed to read Spotify response", "read error">>]
  ELSE [url |-> FindSpotify(page.body), err |-> NoErr]

\* SNSService.GetLatestSpotifyURL: the URL and the error
GetLatestSpotifyURL(showURL, page) ==
  IF ~page.built
  THEN [url |-> <<>>, err |-> <<"failed to create request for Spotify", "url error">>]
  ELSE IF ~page.sent
  THEN [url |-> <<>>, err |-> <<"failed to fetch Spotify show page", "transport error">>]
  ELSE IF ~page.readOk
  THEN [url |-> <<>>, err |-> <<"failed to read Spotify response", "read error">>]
  ELSE IF FindSpotify(page.body) = <<>>
  THEN [url |-> showURL, err |-> NoErr]
  ELSE [url |-> FindSpotify(page.body), err |-> NoErr]

\* SNSService.GetLatestApplePodcastURL: the URL and the error
GetLatestApplePodcastURL(showURL, page) ==
  IF ~page.built
  THEN [url |-> <<>>, err |-> <<"failed to create request for Apple Podcasts", "url error">>]
  ELSE IF ~page.sent
  THEN [url |-> <<>>, err |-> <<"failed to fetch Apple Podcasts show page", "transport error">>]
  ELSE IF ~page.readOk
  THEN [url |-> <<>>, err |-> <<"failed to read Apple Podcasts response", "read error">>]
  ELSE IF FindApple(page.body) = <<>>
  THEN [url |-> showURL, err |-> NoErr]
  ELSE [url |-> FindApple(page.body), err |-> NoErr]

\* what fetching the RSS feed gave; items are the titles of the <item>s
EpisodeTitles == {<<"T", "1">>, <<"T", "2">>}

Feeds ==
  {<<>>} \cup {<<t>> : t \in EpisodeTitles}
  \cup {<<t, u>> : t \in EpisodeTitles, u \in EpisodeTitles}

FeedOutcomes ==
  {[sent |-> FALSE, status |-> 0, readOk |-> FALSE, parseOk |-> FALSE, items |-> <<>>],
   [sent |-> TRUE, status |-> 404, readOk |-> TRUE, parseOk |-> TRUE, items |-> <<<<"T", "1">>>>],
   [sent |-> TRUE, status |-> 200, readOk |-> FALSE, parseOk |-> FALSE, items |-> <<>>],
   [sent |-> TRUE, status |-> 200, readOk |-> TRUE, parseOk |-> FALSE, items |-> <<>>]}
  \cup [sent : {TRUE}, status : {200}, readOk : {TRUE}, parseOk : {TRUE}, items : Feeds]

\* SNSService.fetchRSSFeed: the items and the error
fetchRSSFeed(feed) ==
  IF ~feed.sent
  THEN [items |-> <<>>, err |-> <<"failed to fetch RSS feed", "transport error">>]
  ELSE IF feed.status # 200
  THEN [items |-> <<>>, err |-> <<"failed to fetch RSS feed, status code", ToString(feed.status)>>]
  ELSE IF ~feed.readOk
  THEN [items |-> <<>>, err |-> <<"failed to read RSS feed", "read error">>]
  ELSE IF ~feed.parseOk
  THEN [items |-> <<>>, err |-> <<"failed to parse RSS feed", "xml error">>]
  ELSE [items |-> feed.items, err |-> NoErr]

\* mutant of GetLatestEpisodeTitle: takes the last item of the feed
GetLatestEpisodeTitle_LastItem(feed) ==
  LET f == fetchRSSFeed(feed)
  IN IF f.err # NoErr THEN [title |-> <<>>, err |-> f.err]
     ELSE IF Len(f.items) = 0
     THEN [title |-> <<>>, err |-> <<"no episodes found in the RSS feed">>]
     ELSE [title |-> f.items[Len(f.items)], err |-> NoErr]

\* SNSService.GetLatestEpisodeTitle: the title and the error
GetLatestEpisodeTitle(feed) ==
  LET f == fetchRSSFeed(feed)
  IN IF f.err # NoErr THEN [title |-> <<>>, err |-> f.err]
     ELSE IF Len(f.items) = 0
     THEN [title |-> <<>>, err |-> <<"no episodes found in the RSS feed">>]
     ELSE [title |-> f.items[1], err |-> NoErr]

\* SNSService.CreateSNSPostText
CreateSNSPostText(title, spotifyURL, applePodcastURL) ==
  JoinLines(<<<<"header">>, <<"divider">>, title, <<>>, <<"spotifyPrefix">>, spotifyURL,
              <<>>, <<"applePrefix">>, applePodcastURL, <<>>, <<"hashtags">>>>)

\* a URL setting of step4: the flag when given, else the environment variable
Setting(flagValue, name, e) ==
  IF flagValue # <<>> THEN flagValue ELSE IF name \in e THEN <<name>> ELSE <<>>

\* the post before step4 has done anything; its feed is a placeholder while
\* none has been asked for
NoPost ==
  [rssURL |-> <<>>, spotifyShowURL |-> <<>>, appleShowURL |-> <<>>,
   feed |-> [sent |-> FALSE, status |-> 0, readOk |-> FALSE, parseOk |-> FALSE,
            items |-> <<>>],
   title |-> <<>>,
   spotifyPage |-> NoPage, spotifyURL |-> <<>>, applePage |-> NoPage, appleURL |-> <<>>,
   text |-> <<>>]

\* Step4Cmd up to the SNSService: the three URL settings
Step4Settings ==
  /\ cmd = "step4"
  /\ pc = "start"
  /\ LET rss == Setting(flags.rssURL, "RSS_FEED_URL", env)
         spotify == Setting(flags.spotifyURL, "SPOTIFY_SHOW_URL", env)
         apple == Setting(flags.appleURL, "APPLE_PODCAST_URL", env)
     IN IF rss = <<>>
        THEN Fail(<<"RSS feed URL is required. Set it with --rss-url flag or RSS_FEED_URL environment variable">>)
             /\ UNCHANGED post
        ELSE IF spotify = <<>>
        THEN Fail(<<"Spotify show URL is required. Set it with --spotify-url flag or SPOTIFY_SHOW_URL environment variable">>)
             /\ UNCHANGED post
        ELSE IF apple = <<>>
        THEN Fail(<<"Apple Podcast URL is required. Set it with --apple-url flag or APPLE_PODCAST_URL environment variable">>)
             /\ UNCHANGED post
        ELSE /\ pc' = "settings"
             /\ post' = [NoPost EXCEPT !.rssURL = rss, !.spotifyShowURL = spotify,
                                       !.appleShowURL = apple]
             /\ UNCHANGED err
  /\ UNCHANGED <<build, cmd, flags, env, candidates, selected, files, calls, api,
                 requests, trace, input, exit>>

\* Step4Cmd: GetLatestEpisodeTitle, whose error is returned
Step4Title ==
  /\ cmd = "step4"
  /\ pc = "settings"
  /\ \E feed \in FeedOutcomes :
       LET t == GetLatestEpisodeTitle(feed)
       IN /\ requests' = Append(requests,
                                Request("GET", post.rssURL, "none",
                                        [built |-> TRUE, sent |-> feed.sent,
                                         status |-> feed.status]))
          /\ calls' = [calls EXCEPT !.http = @ + 1]
          /\ trace' = Append(trace, Op("GetLatestEpisodeTitle", <<post.rssURL>>))
          /\ IF t.err # NoErr
             THEN /\ Fail(Wrap("failed to fetch latest episode title", t.err))
                  /\ post' = [post EXCEPT !.feed = feed]
             ELSE /\ pc' = "titled"
                  /\ post' = [post EXCEPT !.feed = feed, !.title = t.title]
                  /\ UNCHANGED err
  /\ UNCHANGED <<build, cmd, flags, env, candidates, selected, files, api, input, exit>>

\* Step4Cmd: GetLatestSpotifyURL, whose error is a warning
Step4Spotify ==
  /\ cmd = "step4"
  /\ pc = "titled"
  /\ \E page \in PageOutcomes :
       LET r == GetLatestSpotifyURL(post.spotifyShowURL, page)
       IN /\ requests' = requests \o PageRequest(post.spotifyShowURL, page)
          /\ calls' = [calls EXCEPT !.http = @ + Len(PageRequest(post.spotifyShowURL, page))]
          /\ trace' = Append(trace, Op("GetLatestSpotifyURL", <<post.spotifyShowURL>>))
          /\ post' = [post EXCEPT !.spotifyPage = page,
                                  !.spotifyURL = IF r.err # NoErr THEN post.spotifyShowURL
                                                 ELSE r.url]
  /\ pc' = "spotify"
  /\ UNCHANGED <<build, cmd, flags, env, candidates, selected, files, err, api, input, exit>>

\* Step4Cmd: GetLatestApplePodcastURL, whose error is a warning
Step4Apple ==
  /\ cmd = "step4"
  /\ pc = "spotify"
  /\ \E page \in PageOutcomes :
       LET r == GetLatestApplePodcastURL(post.appleShowURL, page)
       IN /\ requests' = requests \o PageRequest(post.appleShowURL, page)
          /\ calls' = [calls EXCEPT !.http = @ + Len(PageRequest(post.appleShowURL, page))]
          /\ trace' = Append(trace, Op("GetLatestApplePodcastURL", <<post.appleShowURL>>))
          /\ post' = [post EXCEPT !.applePage = page,
                                  !.appleURL = IF r.err # NoErr THEN post.appleShowURL
                                               ELSE r.url]
  /\ pc' = "apple"
  /\ UNCHANGED <<build, cmd, flags, env, candidates, selected, files, err, api, input, exit>>

\* Step4Cmd: CreateSNSPostText, print, save to --output
Step4Post ==
  /\ cmd = "step4"
  /\ pc = "apple"
  /\ post' = [post EXCEPT !.text = CreateSNSPostText(post.title, post.spotifyURL, post.appleURL)]
  /\ \E written \in BOOLEAN :
       IF flags.output = <<>>
       THEN pc' = "done" /\ UNCHANGED <<err, files>>
       ELSE IF ~written
       THEN Fail(<<"failed to save post text to file", "write error">>) /\ UNCHANGED files
       ELSE pc' = "done" /\ files' = files \cup {"post.txt"} /\ UNCHANGED err
  /\ UNCHANGED <<build, cmd, flags, env, candidates, selected, calls, api,
                 requests, trace, input, exit>>

(***************************************************************************)
(* main: prints the error Execute returned and exits 1, or returns.        *)
(***************************************************************************)
\* mutant of Exit: the error is printed but os.Exit(1) is not called
Exit_NoExitCode ==
  /\ pc \in {"done", "failed"}
  /\ exit = Nil
  /\ exit' = IF pc = "failed" THEN [code |-> 0, printed |-> err]
             ELSE [code |-> 0, printed |-> NoErr]
  /\ UNCHANGED <<build, cmd, flags, env, pc, candidates, selected, files, err, calls, api,
                 requests, trace, input, post>>

Exit ==
  /\ pc \in {"done", "failed"}
  /\ exit = Nil
  /\ exit' = IF pc = "failed" THEN [code |-> 1, printed |-> err]
             ELSE [code |-> 0, printed |-> NoErr]
  /\ UNCHANGED <<build, cmd, flags, env, pc, candidates, selected, files, err, calls, api,
                 requests, trace, input, post>>

(***************************************************************************)
(* The specification.                                                      *)
(***************************************************************************)
Next ==
  \/ LoadConfig
  \/ Step1Key
  \/ LoadTranscript
  \/ GenerateCandidates
  \/ Select
  \/ SaveOutputs
  \/ Step2Load
  \/ Upload
  \/ Step3
  \/ Step4Settings
  \/ Step4Title
  \/ Step4Spotify
  \/ Step4Apple
  \/ Step4Post
  \/ Exit

Spec == Init /\ [][Next]_vars


(***************************************************************************)
(* Vocabulary of the properties.                                           *)
(***************************************************************************)
\* the selection stage has returned
AfterSelection == pc \in {"selected", "saved", "done"} \/ (pc = "failed" /\ selected # Nil)

\* RunE returned the error of GenerateCandidates
GenerationAborted == pc = "failed" /\ Len(err) >= 1 /\ err[1] = "content generation failed"

\* ... and GenerateCandidates failed in its title step
TitleAborted == GenerationAborted /\ Len(err) >= 2 /\ err[2] = "failed to generate titles"

\* the titles the service returned: the parsed lines, or the title section
\* of the combined answer unless it is blank
ServiceTitles ==
  IF build.ai = "combined"
  THEN SelectSeq(GenerateAllContent(AnswerText(api.titleAnswer)).titles,
                 LAMBDA t : TrimSpace(t) # <<>>)
  ELSE ParseTitles(AnswerText(api.titleAnswer))

\* the title call succeeded and its answer holds no title
ZeroTitles == api.titleCall = "ok" /\ ServiceTitles = <<>>

\* the title call succeeded and its answer has fewer than TitleCount non-blank lines
FewTitleLines ==
  api.titleCall = "ok" /\ NonBlankCount(AnswerText(api.titleAnswer)) < TitleCount

Range(f) == {f[i] : i \in DOMAIN f}

(***************************************************************************)
(* Properties.                                                             *)
(***************************************************************************)

\* C1: in every auto-selecting run (the display-only selection of the
\* current command, --non-interactive of the legacy one) the selection
\* returns, without failure, the first title and the first show note, or
\* the empty show note when there is no show note.
C1_AutoSelectFirst ==
  (cmd = "process" /\ NonInteractive) =>
    /\ pc # "panicked"
    /\ candidates # Nil /\ pc \notin {"generated"} =>
         /\ AfterSelection
         /\ ~(pc = "failed" /\ err[1] \in {"content display failed", "interactive selection failed"})
         /\ Len(candidates.Titles) > 0
         /\ selected.Title = candidates.Titles[1]
         /\ selected.ShowNote = IF Len(candidates.ShowNotes) > 0
                                THEN candidates.ShowNotes[1] ELSE <<>>

\* an auto-selecting run selected from a candidate set without show notes
C1_Witness ==
  /\ cmd = "process" /\ NonInteractive /\ pc = "selected"
  /\ candidates.ShowNotes = <<>>
  /\ selected.ShowNote = <<>>
  /\ selected.Title = candidates.Titles[1]

\* C2: a run whose media path is empty never invokes PublishEpisode.
C2_NoFullPublishWithoutMedia ==
  (cmd = "process" /\ flags.inputAudio = <<>>) => calls.publishEpisode = 0

\* UploadDraft ran without a media path and took the draft-title path
C2_Witness ==
  /\ cmd = "process" /\ flags.inputAudio = <<>>
  /\ calls.uploadDraft = 1 /\ calls.uploadDraftTitle = 1 /\ pc = "done"

\* C3 as stated: whenever the show-note call fails, GenerateCandidates
\* returns no error, the titles and an empty show-note sequence, and the
\* run is not aborted.
C3_Original ==
  (cmd = "process" /\ api.noteCall = "failed") =>
    /\ ~GenerationAborted
    /\ candidates # Nil
    /\ candidates.ShowNotes = <<>>

\* C3 amended: in the GenerateCandidates that takes the generateShowNotes
\* flag, a failed show-note call yields no error, the titles obtained and
\* an empty show-note sequence, and the run goes on to selection.
C3_ShowNoteFailureRecovered ==
  (cmd = "process" /\ build.proc = "current" /\ api.noteCall = "failed") =>
    /\ GenShownotesArg(flags)
    /\ ~GenerationAborted
    /\ candidates # Nil
    /\ candidates.ShowNotes = <<>>
    /\ Len(candidates.Titles) > 0
    /\ Range(ServiceTitles) \subseteq Range(candidates.Titles)
    /\ pc # "generated" => AfterSelection

\* the show-note call failed and the selection stage has run
C3_Witness ==
  /\ cmd = "process" /\ build.proc = "current" /\ api.noteCall = "failed"
  /\ pc = "selected" /\ candidates.ShowNotes = <<>> /\ Len(candidates.Titles) = TitleCount

\* C4: with generateShowNotes = false GenerateShowNotes is never called and
\* the show-note sequence is empty, whatever the title call returned.
C4_NoShowNoteCallWhenDisabled ==
  (cmd = "process" /\ build.proc = "current" /\ ~GenShownotesArg(flags)) =>
    /\ calls.generateShowNotes = 0
    /\ api.noteCall = "none"
    /\ calls.chat <= 1
    /\ candidates # Nil => candidates.ShowNotes = <<>>

\* GenerateCandidates returned with show-note generation disabled
C4_Witness ==
  /\ cmd = "process" /\ build.proc = "current" /\ ~GenShownotesArg(flags)
  /\ pc = "generated" /\ calls.generateTitles = 1 /\ candidates.ShowNotes = <<>>

\* C5: when the title call fails, GenerateCandidates returns an error and
\* no candidates, calls GenerateShowNotes not at all, and the run ends
\* there: no selection, no file, no upload.
C5_TitleFailureAborts ==
  (cmd = "process" /\ api.titleCall = "failed") =>
    /\ TitleAborted
    /\ candidates = Nil
    /\ calls.generateShowNotes = 0 /\ api.noteCall = "none"
    /\ selected = Nil /\ calls.selectContent = 0
    /\ files = {}
    /\ calls.uploadDraft = 0 /\ calls.publishEpisode = 0 /\ calls.uploadDraftTitle = 0

\* the title call failed
C5_Witness == cmd = "process" /\ api.titleCall = "failed" /\ pc = "failed"

C7_Original == (cmd = "process" /\ ZeroTitles) => GenerationAborted /\ candidates = Nil

\* C7 amended: when the service yields no title, GenerateTitles still
\* succeeds: the line-parsing revisions return 10 default titles, the
\* combined-call revision returns one blank title, and the run is not
\* aborted by the title step.
C7_ZeroTitlesStillSucceed ==
  (cmd = "process" /\ ZeroTitles) =>
    /\ ~TitleAborted
    /\ candidates = Nil => build.proc = "legacy" /\ api.noteCall = "failed"
    /\ candidates # Nil =>
         IF build.ai = "combined"
         THEN Len(candidates.Titles) = 1 /\ TrimSpace(candidates.Titles[1]) = <<>>
         ELSE /\ Len(candidates.Titles) = TitleCount
              /\ Range(candidates.Titles) \subseteq Range(DefaultTitles)

\* the service returned no title line and the selection stage was reached
C7_Witness ==
  /\ cmd = "process" /\ ZeroTitles /\ build.ai # "combined"
  /\ pc = "selected" /\ selected.Title \in Range(DefaultTitles)

\* C8 as stated: an answer of fewer than 10 non-blank lines is followed by
\* exactly one more generation call for the titles.
C8_Original == (cmd = "process" /\ FewTitleLines) => api.titleChatCalls = 2

\* C8 amended: GenerateTitles makes exactly one generation call whatever
\* the answer holds; there is no additional call, the shortfall is padded
\* directly, and a run makes at most one call per GenerateTitles and
\* GenerateShowNotes.
C8_SingleTitleCall ==
  cmd = "process" =>
    /\ api.titleCall # "none" => api.titleChatCalls = 1
    /\ calls.chat = calls.generateTitles + calls.generateShowNotes
    /\ calls.generateTitles <= 1

\* an answer of fewer than 10 lines was padded after a single call
C8_Witness ==
  /\ cmd = "process" /\ FewTitleLines /\ build.ai # "combined"
  /\ api.titleChatCalls = 1 /\ candidates # Nil /\ Len(candidates.Titles) = TitleCount

\* C9 as stated: every title returned is a title the service returned.
C9_Original ==
  (cmd = "process" /\ candidates # Nil /\ build.ai # "combined") =>
    Range(candidates.Titles) \subseteq Range(ServiceTitles)

\* C9 amended: when fewer than 10 titles were obtained, the result is padded
\* to 10 with the first hard-coded default title, repeated: the first k
\* entries are the k titles obtained, in order, the others are that default.
C9_PaddedWithDefaults ==
  (cmd = "process" /\ candidates # Nil /\ build.ai # "combined") =>
    LET k == Len(ServiceTitles)
    IN /\ k <= TitleCount
       /\ SubSeq(candidates.Titles, 1, k) = ServiceTitles
       /\ \A i \in (k + 1)..Len(candidates.Titles) : candidates.Titles[i] = DefaultTitles[1]

\* some titles were obtained and some were padded
C9_Witness ==
  /\ cmd = "process" /\ candidates # Nil /\ build.ai # "combined"
  /\ Len(ServiceTitles) \in 1..(TitleCount - 1)
  /\ candidates.Titles[TitleCount] = DefaultTitles[1]
  /\ candidates.Titles[1] = ServiceTitles[1]

\* C10: step3 --dry-run sends no HTTP request, and step3 fails with a
\* configuration error, without any request, when VERCEL_DEPLOY_HOOK is not
\* set, with or without --dry-run.
C10_RedeployDryRun ==
  cmd = "step3" =>
    /\ flags.dryRun => calls.http = 0
    /\ ("VERCEL_DEPLOY_HOOK" \notin env /\ pc # "start") =>
         /\ pc = "failed"
         /\ err = <<"Vercel deploy hook URL is not configured. Please set the VERCEL_DEPLOY_HOOK environment variable">>
         /\ calls.http = 0

\* a dry run with the hook configured completed
C10_Witness ==
  cmd = "step3" /\ flags.dryRun /\ "VERCEL_DEPLOY_HOOK" \in env /\ pc = "done"

\* a non-dry-run step3 with VERCEL_DEPLOY_HOOK set has run
RedeployRan ==
  cmd = "step3" /\ ~flags.dryRun /\ "VERCEL_DEPLOY_HOOK" \in env /\ pc # "start"

\* ... and the value of VERCEL_DEPLOY_HOOK is a URL
RedeployRanWithURL ==
  RedeployRan /\ trace = <<Op("TriggerRedeploy", <<HookURL>>)>>

\* the response to the only request has a status in 200..299
Redeploy2xx ==
  /\ Len(requests) = 1
  /\ requests[1].outcome.sent
  /\ requests[1].outcome.status >= 200 /\ requests[1].outcome.status <= 299

\* C11: a non-dry-run redeploy with a webhook URL configured sends exactly
\* one request, a POST without payload to that URL, and succeeds exactly
\* when the response status is in 200..299; every other status and every
\* transport error is a failure.  (A configured value that is no URL sends
\* nothing and is a failure as well.)
C11_RedeployRequest ==
  /\ RedeployRanWithURL =>
       /\ Len(requests) = 1 /\ calls.http = 1
       /\ requests[1].method = "POST" /\ requests[1].payload = "none"
       /\ requests[1].target = "VERCEL_DEPLOY_HOOK"
  /\ RedeployRan =>
       /\ pc = "done" <=> Redeploy2xx
       /\ pc \in {"done", "failed"}
       /\ pc = "failed" => err # NoErr /\ err[1] = "failed to trigger Vercel redeployment"
       /\ ~RedeployRanWithURL => requests = <<>> /\ pc = "failed"

\* a redeploy answered with 204 succeeded
C11_Witness ==
  /\ RedeployRanWithURL /\ pc = "done" /\ Len(requests) = 1
  /\ requests[1].outcome.status = 204 /\ requests[1].method = "POST"

\* the entries of trace that invoke the given operation
OpsOf(name) == SelectSeq(trace, LAMBDA o : o.op = name)

\* UploadDraft was called with a media path
PublishedWithMedia ==
  cmd \in {"process", "step2"} /\ flags.inputAudio # <<>> /\ calls.uploadDraft >= 1

\* C12: when a media path is supplied, UploadDraft calls PublishEpisode
\* exactly once, with the media path, the selected title and the selected
\* show note; when PublishEpisode fails, its error is returned wrapped, the
\* run ends in failure and nothing is tried again: no second PublishEpisode,
\* no UploadDraftTitle, no second UploadDraft.
C12_FullPublishOnce ==
  PublishedWithMedia =>
    /\ calls.uploadDraft = 1 /\ Len(OpsOf("UploadDraft")) = 1
    /\ calls.publishEpisode = 1
    /\ OpsOf("PublishEpisode") =
         <<Op("PublishEpisode", <<flags.inputAudio, selected.Title, selected.ShowNote>>)>>
    /\ calls.uploadDraftTitle = 0 /\ requests = <<>>
    /\ trace[Len(trace)].op = "PublishEpisode"
    /\ LET p == PublishEpisode(flags.inputAudio, selected.Title, selected.ShowNote)
       IN IF p # NoErr
          THEN pc = "failed" /\ err = <<"Art19 upload failed", "failed to upload to Art19">> \o p
          ELSE pc = "done" /\ err = NoErr

\* a run with a media path ended in the failure of PublishEpisode
C12_Witness ==
  /\ PublishedWithMedia /\ pc = "failed" /\ calls.publishEpisode = 1
  /\ err[Len(err)] = "Art19 publishing not yet implemented"
  /\ selected.Title # <<>>

\* no episode link came out of fetching the show page
NoDeepLink(page, found) ==
  ~page.built \/ ~page.sent \/ ~page.readOk \/ found = <<>>

\* step4 has asked for the Spotify episode link and got none
NoSpotifyDeepLink ==
  /\ cmd = "step4" /\ Len(OpsOf("GetLatestSpotifyURL")) = 1
  /\ NoDeepLink(post.spotifyPage, FindSpotify(post.spotifyPage.body))

\* step4 has asked for the Apple Podcasts episode link and got none
NoAppleDeepLink ==
  /\ cmd = "step4" /\ Len(OpsOf("GetLatestApplePodcastURL")) = 1
  /\ NoDeepLink(post.applePage, FindApple(post.applePage.body))

\* C13: in step4, when no episode link can be obtained for a platform (the
\* show page holds no matching URL, or fetching it fails), the post text
\* carries that platform's show URL in its place, and the failure does not
\* end the stage: the run goes on to the post text and fails afterwards
\* only if the --output file cannot be written.
C13_DeepLinkFallback ==
  /\ NoSpotifyDeepLink =>
       /\ post.spotifyShowURL # <<>> /\ post.spotifyURL = post.spotifyShowURL
       /\ pc \in {"spotify", "apple", "done", "failed"}
  /\ NoAppleDeepLink =>
       /\ post.appleShowURL # <<>> /\ post.appleURL = post.appleShowURL
       /\ pc \in {"apple", "done", "failed"}
  /\ (NoSpotifyDeepLink \/ NoAppleDeepLink) /\ pc \in {"done", "failed"} =>
       /\ post.text = CreateSNSPostText(post.title, post.spotifyURL, post.appleURL)
       /\ pc = "failed" =>
            /\ flags.output # <<>>
            /\ err = <<"failed to save post text to file", "write error">>

\* step4 completed with the show URLs in the post: the Spotify page could
\* not be fetched, the Apple page has no link of the show
C13_Witness ==
  /\ cmd = "step4" /\ pc = "done"
  /\ ~post.spotifyPage.sent /\ post.applePage.readOk /\ post.applePage.body # <<>>
  /\ NoAppleDeepLink
  /\ post.text = CreateSNSPostText(post.title, post.spotifyShowURL, post.appleShowURL)

\* SelectContent has been called and has returned
SelectContentReturned == cmd = "process" /\ calls.selectContent = 1

\* RunE returned the error of SelectContent
SelectionFailed ==
  /\ pc = "failed" /\ Len(err) >= 2
  /\ err[1] \in {"interactive selection failed", "content display failed"}

\* C14: SelectContent returns either an error and no record, or, after the
\* user confirmed (the prompting revisions), a record whose title and show
\* note are both set: each a candidate or the text the user typed, the show
\* note empty only when there is no show-note candidate or the user typed
\* nothing.
C14_NoPartialSelection ==
  SelectContentReturned =>
    \/ /\ SelectionFailed /\ selected = Nil
       /\ input.failAt # "none" \/ ~input.confirm
    \/ /\ ~SelectionFailed /\ selected # Nil
       /\ input.failAt = "none" /\ input.confirm
       /\ DOMAIN selected = {"Title", "ShowNote", "AdTimecodes"}
       /\ selected.Title \in Range(candidates.Titles) \cup {input.editedTitle}
       /\ selected.ShowNote \in Range(candidates.ShowNotes) \cup {input.editedShowNote}
       /\ selected.ShowNote = <<>> =>
            candidates.ShowNotes = <<>> \/ input.editShowNote
            \/ <<>> \in Range(candidates.ShowNotes)

\* the user edited the title and confirmed: both fields are set
C14_Witness ==
  /\ SelectContentReturned /\ build.ui = "propose" /\ pc = "selected"
  /\ input.editTitle /\ input.confirm
  /\ selected.Title = input.editedTitle /\ selected.ShowNote = candidates.ShowNotes[1]

\* the user answered every prompt and declined the final confirmation
UserDeclined ==
  /\ cmd = "process" /\ build.ui # "display" /\ calls.selectContent = 1
  /\ input.failAt = "none" /\ ~input.confirm

\* C15: when the user declines the final confirmation of the interactive
\* selection, SelectContent returns "user cancelled the operation" and no
\* record, the run ends there with that error: no selection file is
\* written, no publish operation is invoked, and SelectContent is not
\* called again.
C15_UserCancelAborts ==
  UserDeclined =>
    /\ pc = "failed"
    /\ err = <<"interactive selection failed", "user cancelled the operation">>
    /\ selected = Nil
    /\ files = {}
    /\ calls.uploadDraft = 0 /\ calls.publishEpisode = 0 /\ calls.uploadDraftTitle = 0
    /\ requests = <<>>
    /\ Len(OpsOf("SelectContent")) = 1
    /\ trace[Len(trace)].op = "SelectContent"

\* the user declined and main has exited
C15_Witness ==
  /\ UserDeclined /\ pc = "failed" /\ exit # Nil /\ exit.code = 1
  /\ err[Len(err)] = "user cancelled the operation"

\* the stage an operation of trace starts, 0 for an operation inside a stage
StageOf(o) ==
  CASE o.op = "LoadTranscript" -> 1
    [] o.op = "GenerateCandidates" -> 2
    [] o.op \in {"SelectContent", "AutoSelect"} -> 3
    [] o.op = "UploadDraft" -> 4
    [] OTHER -> 0

\* the stages started so far, in the order they were started
Stages == SelectSeq(trace, LAMBDA o : StageOf(o) > 0)

\* C16: in every run of process-transcript the stages start in the order
\* load transcript, generate, select, publish, each at most once and none
\* skipped before a later one; selection starts only after generation
\* returned a candidate set, publishing only after selection returned a
\* SelectedContent.
C16_StageOrder ==
  cmd = "process" =>
    /\ Len(Stages) <= 4
    /\ \A i \in DOMAIN Stages : StageOf(Stages[i]) = i
    /\ Len(Stages) >= 3 => candidates # Nil /\ api.titleCall = "ok"
    /\ Len(Stages) >= 4 => selected # Nil /\ candidates # Nil
    /\ pc = "start" \/ pc = "configured" => Stages = <<>>
    /\ pc = "loaded" => Len(Stages) = 1
    /\ pc = "generated" => Len(Stages) = 2
    /\ pc \in {"selected", "saved"} => Len(Stages) = 3
    /\ pc = "done" => Len(Stages) \in {3, 4}

\* a run went through all four stages
C16_Witness ==
  /\ cmd = "process" /\ pc = "done" /\ Len(Stages) = 4
  /\ Stages[4].args = <<flags.inputAudio, selected.Title, selected.ShowNote>>

(***************************************************************************)
(* C17: configuration errors.                                              *)
(***************************************************************************)
\* the setting an error names in its text, "" when it is no configuration
\* error
SettingNamed(e) ==
  CASE e = NoErr -> ""
    [] e[Len(e)] = "OpenAI API key is required. Set it with --openai-key flag or OPENAI_API_KEY environment variable"
         -> "OPENAI_API_KEY"
    [] e[Len(e)] = "Vercel deploy hook URL is not configured. Please set the VERCEL_DEPLOY_HOOK environment variable"
         -> "VERCEL_DEPLOY_HOOK"
    [] e[Len(e)] = "RSS feed URL is required. Set it with --rss-url flag or RSS_FEED_URL environment variable"
         -> "RSS_FEED_URL"
    [] e[Len(e)] = "Spotify show URL is required. Set it with --spotify-url flag or SPOTIFY_SHOW_URL environment variable"
         -> "SPOTIFY_SHOW_URL"
    [] e[Len(e)] = "Apple Podcast URL is required. Set it with --apple-url flag or APPLE_PODCAST_URL environment variable"
         -> "APPLE_PODCAST_URL"
    [] e[Len(e)] = "ART19_EPISODE_NEW_URL is not set" -> "ART19_EPISODE_NEW_URL"
    [] Len(e) >= 2 /\ e[Len(e) - 1] = "required environment variable is not set" -> e[Len(e)]
    [] OTHER -> ""

\* the settings the command checks before anything else, given its flags
StartSettings ==
  CASE cmd \in {"process", "step2"} -> RequiredEnv
    [] cmd = "step1" -> IF flags.openaiKey = <<>> THEN {"OPENAI_API_KEY"} ELSE {}
    [] cmd = "step3" -> {"VERCEL_DEPLOY_HOOK"}
    [] OTHER -> (IF flags.rssURL = <<>> THEN {"RSS_FEED_URL"} ELSE {})
                \cup (IF flags.spotifyURL = <<>> THEN {"SPOTIFY_SHOW_URL"} ELSE {})
                \cup (IF flags.appleURL = <<>> THEN {"APPLE_PODCAST_URL"} ELSE {})

\* those of them that are not set
MissingAtStart == StartSettings \ env

\* no call of the chat-completion API and no HTTP request has been made
NoNetworkCall == calls.chat = 0 /\ requests = <<>>

\* C17 as stated: whenever a command fails on a missing setting, the error
\* names a setting that is missing and no network call has been made.
C17_Original ==
  SettingNamed(err) # "" =>
    /\ SettingNamed(err) \notin env
    /\ NoNetworkCall

\* C17, amended: a run in which a setting checked at the start is missing
\* never gets past that check, and fails there naming a missing setting
\* before any network call; ART19_EPISODE_NEW_URL is checked only inside
\* UploadDraftTitle, so the error naming it comes before any HTTP request
\* but, in process-transcript, after the chat-completion calls; no draft
\* title is uploaded without it.
C17_ConfigErrorNamesSetting ==
  /\ MissingAtStart # {} =>
       /\ pc \in {"start", "failed"}
       /\ NoNetworkCall
       /\ pc = "failed" => SettingNamed(err) \in MissingAtStart
  /\ SettingNamed(err) # "" =>
       /\ pc = "failed"
       /\ SettingNamed(err) \notin env
       /\ requests = <<>>
       /\ SettingNamed(err) # "ART19_EPISODE_NEW_URL" => NoNetworkCall
       /\ cmd # "process" => NoNetworkCall
  /\ calls.uploadDraftTitle > 0 /\ "ART19_EPISODE_NEW_URL" \notin env =>
       pc = "failed" /\ SettingNamed(err) = "ART19_EPISODE_NEW_URL"

\* process-transcript failed on ART19_EPISODE_NEW_URL after it had called the
\* chat-completion API
C17_Witness ==
  /\ cmd = "process"
  /\ pc = "failed"
  /\ SettingNamed(err) = "ART19_EPISODE_NEW_URL"
  /\ calls.chat > 0

(***************************************************************************)
(* C18: the life of the SelectedContent in a successful pipeline run.      *)
(***************************************************************************)
\* process-transcript returned nil
PipelineSucceeded == cmd = "process" /\ pc = "done"

\* the selections made so far, interactive or automatic
Selections == SelectSeq(trace, LAMBDA o : o.op \in {"SelectContent", "AutoSelect"})

\* the run was told not to upload: --api-only returns before the upload,
\* --skip-upload steps over it (flags of the current command only)
UploadSkipped == build.proc = "current" /\ (flags.apiOnly \/ flags.skipUpload)

\* C18 as stated: a successful pipeline run made exactly one selection, and
\* called UploadDraft exactly once, with the selected title and show note.
C18_Original ==
  PipelineSucceeded =>
    /\ Len(Selections) = 1 /\ selected # Nil
    /\ OpsOf("UploadDraft") =
         <<Op("UploadDraft", <<flags.inputAudio, selected.Title, selected.ShowNote>>)>>

\* the state part of C18, amended
ConsumedAtMostOnce ==
  PipelineSucceeded =>
    /\ Len(Selections) = 1 /\ selected # Nil
    /\ IF UploadSkipped
       THEN OpsOf("UploadDraft") = <<>> /\ calls.uploadDraft = 0
       ELSE /\ OpsOf("UploadDraft") =
                 <<Op("UploadDraft", <<flags.inputAudio, selected.Title, selected.ShowNote>>)>>
            /\ calls.uploadDraft = 1

\* C18, amended: a successful pipeline run made exactly one selection; once
\* the selection stage has returned the SelectedContent no later step changes
\* it; UploadDraft was called exactly once with the selected title and show
\* note, except under --skip-upload or --api-only, where it was not called
\* at all.
C18_SelectedContentLifecycle ==
  /\ []ConsumedAtMostOnce
  /\ [][cmd = "process" /\ selected # Nil => selected' = selected]_vars

\* a pipeline run succeeded after one UploadDraft call
C18_Witness ==
  /\ PipelineSucceeded
  /\ ~UploadSkipped
  /\ calls.uploadDraft = 1
  /\ Len(OpsOf("UploadDraft")) = 1

(***************************************************************************)
(* C19: the title of a SelectedContent.                                    *)
(***************************************************************************)
\* the selection stage of process-transcript or step1 returned a record
SelectionProduced == cmd \in {"process", "step1"} /\ selected # Nil

\* the user replaced the title at the "Edit title:" prompt
TitleEdited == input # Nil /\ input.editTitle

PickedTitle ==
  IF candidates.Titles = <<>> THEN <<>>
  ELSE IF build.ui = "choose" /\ input # Nil THEN candidates.Titles[input.titleIndex + 1]
  ELSE candidates.Titles[1]

FatalStageFailure ==
  \/ MissingAtStart # {} /\ pc # "start"
  \/ trace # <<>> /\ trace[Len(trace)].op = "LoadTranscript" /\ pc # "loaded"
  \/ api.titleCall = "failed"
  \/ input # Nil /\ ~input.confirm
  \/ calls.publishEpisode > 0
  \/ /\ cmd \in {"process", "step2"} /\ requests # <<>>
     /\ ~(requests[1].outcome.sent /\ requests[1].outcome.status = 200)
  \/ cmd = "step3" /\ requests # <<>> /\ ~Redeploy2xx
  \/ /\ cmd = "step4" /\ requests # <<>>
     /\ ~(requests[1].outcome.sent /\ requests[1].outcome.status = 200)

\* the state part of C20
FailureMeansExitOne ==
  /\ FatalStageFailure => pc = "failed" /\ err # NoErr
  /\ exit # Nil =>
       IF pc = "failed"
       THEN exit = [code |-> 1, printed |-> err] /\ err # NoErr
       ELSE pc = "done" /\ exit = [code |-> 0, printed |-> NoErr] /\ err = NoErr
            /\ ~FatalStageFailure

\* C20: a failed configuration, transcript load, title generation,
\* selection, publish, redeploy or feed fetch leaves the command failed with
\* an error; from a failed command the only step is main printing that error
\* and exiting with code 1; a command that returned no error exits with
\* code 0, and then no such failure has occurred.
C20_FatalFailuresExitNonZero ==
  /\ []FailureMeansExitOne
  /\ [][pc = "failed" => pc' = pc /\ err' = err /\ exit' = [code |-> 1, printed |-> err]]_vars
  /\ [][pc = "done" => pc' = pc /\ err' = err /\ exit' = [code |-> 0, printed |-> NoErr]]_vars

\* a run whose feed fetch, redeploy, publish, selection or generation failed
\* has exited with code 1
C20_Witness ==
  /\ FatalStageFailure
  /\ exit # Nil
  /\ exit.code = 1
  /\ exit.printed = err

(***************************************************************************)
(* C21: step4 --dry-run.                                                   *)
(***************************************************************************)
\* C21: a step4 run with --dry-run makes no external request, neither the
\* feed fetch nor a show-page fetch.
C21_DryRunNoRequest ==
  (cmd = "step4" /\ flags.dryRun) =>
    /\ requests = <<>>
    /\ OpsOf("GetLatestEpisodeTitle") = <<>>
    /\ OpsOf("GetLatestSpotifyURL") = <<>>
    /\ OpsOf("GetLatestApplePodcastURL") = <<>>

(***************************************************************************)
(* C22: the title of the social post.                                      *)
(***************************************************************************)
\* the feed was fetched, read and parsed, and holds an item
FeedHasItem ==
  /\ post.feed.sent /\ post.feed.status = 200 /\ post.feed.readOk /\ post.feed.parseOk
  /\ Len(post.feed.items) >= 1

\* C22: once step4 has asked for the feed, the title it uses is that of the
\* first item of the feed, and a post text, when there is one, is built
\* from that title; when the feed could not be fetched, read or parsed, or
\* holds no item, the stage has failed with the error of the title fetch,
\* without a post text and without an output file.
C22_FirstItemIsLatest ==
  (cmd = "step4" /\ Len(OpsOf("GetLatestEpisodeTitle")) = 1) =>
    IF FeedHasItem
    THEN /\ post.title = post.feed.items[1]
         /\ post.text # <<>> =>
              post.text = CreateSNSPostText(post.feed.items[1], post.spotifyURL, post.appleURL)
         /\ pc = "failed" => err[1] # "failed to fetch latest episode title"
    ELSE /\ pc = "failed"
         /\ err[1] = "failed to fetch latest episode title"
         /\ post.title = <<>> /\ post.text = <<>>
         /\ files = {}

\* a post was made from a feed of two items with different titles
C22_Witness ==
  /\ cmd = "step4" /\ Len(OpsOf("GetLatestEpisodeTitle")) = 1
  /\ FeedHasItem
  /\ Len(post.feed.items) = 2
  /\ post.feed.items[1] # post.feed.items[2]
  /\ post.text # <<>>
  /\ pc = "done"

(***************************************************************************)
(* C23: the generated show note reaches the selection whole.               *)
(***************************************************************************)
\* C23: when GenerateCandidates returned candidates after a show-note call
\* that succeeded (template and combined AIService), the show note candidate
\* handed to the selection contains every non-blank line of the show-note
\* text the service returned: the whole answer, or the note part of an
\* answer to the combined prompt.
C23_ShowNotePreserved ==
  (build.ai \in {"template", "combined"} /\ candidates # Nil /\ api.noteCall = "ok") =>
    LET text == IF build.ai = "combined" THEN NoteResponse(api.noteAnswer.n, 1)
                ELSE AnswerText(api.noteAnswer)
        lines == SplitLines(text)
    IN /\ candidates.ShowNotes # <<>>
       /\ \A k \in 1..Len(lines) :
            TrimSpace(lines[k]) # <<>> => Index(candidates.ShowNotes[1], lines[k]) >= 0

(***************************************************************************)
(* C24: size and order of the candidate set.                               *)
(***************************************************************************)
\* the non-blank lines of a text, in order
NonBlankSeq(text) == SelectSeq(SplitLines(text), LAMBDA l : TrimSpace(l) # <<>>)

\* C24: a candidate set the Generator returned holds between 1 and 10
\* titles and between 0 and 10 show notes, and its titles are in generation
\* order: the i-th title is the i-th non-blank line of the answer (numbering
\* and surrounding blanks removed), for as many lines as were kept.
C24_CandidateBounds ==
  candidates # Nil =>
    /\ Len(candidates.Titles) >= 1 /\ Len(candidates.Titles) <= TitleCount
    /\ Len(candidates.ShowNotes) >= 0 /\ Len(candidates.ShowNotes) <= NoteCount
    /\ build.ai # "combined" =>
         LET lines == NonBlankSeq(AnswerText(api.titleAnswer))
         IN \A i \in 1..Min({Len(lines), TitleCount}) :
              candidates.Titles[i] = StripNumbering(lines[i])

\* an answer of more than ten title lines and one of more than ten show-note
\* paragraphs were both cut to ten
C24_Witness ==
  /\ candidates # Nil /\ build.ai = "paragraph"
  /\ Len(NonBlankSeq(AnswerText(api.titleAnswer))) > TitleCount
  /\ api.noteCall = "ok" /\ api.noteAnswer.n > NoteCount
  /\ Len(candidates.Titles) = TitleCount
  /\ Len(candidates.ShowNotes) = NoteCount

(***************************************************************************)
(* C25: what the error of a refused redeploy carries.                      *)
(***************************************************************************)
\* the redeploy request was answered with a status outside 200..299
RedeployRefused ==
  /\ RedeployRanWithURL
  /\ Len(requests) = 1 /\ requests[1].outcome.sent
  /\ ~Redeploy2xx

\* C25 as stated: the error of a redeploy answered with a status outside
\* 200..299 carries the response body.
C25_Original ==
  RedeployRefused => \E i \in 1..Len(err) : err[i] = "response body"

\* C25, amended: a redeploy answered with a status outside 200..299 fails
\* with an error that carries the status code and nothing of the response
\* body.
C25_ErrorCarriesStatusOnly ==
  RedeployRefused =>
    /\ pc = "failed"
    /\ err = <<"failed to trigger Vercel redeployment", "unexpected status code",
               ToString(requests[1].outcome.status)>>

\* a redeploy was answered with status 500
C25_Witness ==
  /\ RedeployRefused
  /\ requests[1].outcome.status = 500
  /\ pc = "failed"

(***************************************************************************)
(* C26: --titles-only overrides --gen-shownotes.                           *)
(***************************************************************************)
\* C26: once process-transcript or step1 has called GenerateCandidates, it
\* was called with generateShowNotes = false whenever
\* --titles-only is set, whatever --gen-shownotes says, and then no
\* show-note generation call is made; without --titles-only the value passed
\* is that of --gen-shownotes, and show notes are generated exactly when it
\* is true and the titles were obtained.
C26_TitlesOnlyOverrides ==
  (/\ cmd \in {"process", "step1"} /\ build.proc = "current"
   /\ Len(OpsOf("GenerateCandidates")) = 1) =>
    LET arg == OpsOf("GenerateCandidates")[1].args
    IN /\ flags.titlesOnly =>
            /\ arg = <<"FALSE">>
            /\ calls.generateShowNotes = 0 /\ api.noteCall = "none"
       /\ ~flags.titlesOnly => arg = <<ToString(flags.genShownotes)>>
       /\ calls.generateShowNotes =
            IF arg = <<"TRUE">> /\ api.titleCall = "ok" THEN 1 ELSE 0

\* --titles-only was given with --gen-shownotes left at true, and the
\* candidates came back without show notes
C26_Witness ==
  /\ cmd \in {"process", "step1"} /\ build.proc = "current"
  /\ Len(OpsOf("GenerateCandidates")) = 1
  /\ flags.titlesOnly /\ flags.genShownotes
  /\ candidates # Nil
  /\ candidates.ShowNotes = <<>>

(***************************************************************************)
(* C27: --skip-upload and --api-only.                                      *)
(***************************************************************************)
\* C27: under --skip-upload or --api-only no Art19 operation is invoked, no
\* UploadDraft, no draft-title upload, no full publish and no request to the
\* upload server; once the selection has returned, the run does not fail any
\* more and ends with exit code 0.
C27_NoUploadWhenSkipped ==
  (cmd = "process" /\ UploadSkipped) =>
    /\ calls.uploadDraft = 0 /\ calls.uploadDraftTitle = 0 /\ calls.publishEpisode = 0
    /\ OpsOf("UploadDraft") = <<>> /\ OpsOf("UploadDraftTitle") = <<>>
    /\ OpsOf("PublishEpisode") = <<>>
    /\ requests = <<>>
    /\ selected # Nil => pc \in {"selected", "saved", "done"} /\ err = NoErr
    /\ selected # Nil /\ exit # Nil => pc = "done" /\ exit.code = 0

\* a run with --api-only and a media path has ended successfully
C27_Witness ==
  /\ cmd = "process" /\ UploadSkipped
  /\ flags.apiOnly /\ flags.inputAudio # <<>>
  /\ selected # Nil
  /\ exit # Nil /\ exit.code = 0

(***************************************************************************)
(* C28: step2 reads back what step1 wrote.                                 *)
(***************************************************************************)
\* C28: when the file step2 reads is the selected_content.txt step1 wrote
\* for a title and a show note, step2 parses out that title and that show
\* note, up to surrounding whitespace, and publishes nothing else; a file
\* without "Title: " followed by "Show Notes:" makes step2 fail before any
\* upload.
C28_RoundTrip ==
  (cmd = "step2" /\ Len(OpsOf("ReadFile")) = 1) =>
    LET content == OpsOf("ReadFile")[1].args[1]
        uploads == OpsOf("UploadDraft")
    IN /\ \A t \in SelectedTitles, n \in SelectedShowNotes :
            content = SelectedContentFile(t, n) =>
              /\ selected # Nil
              /\ selected.Title = TrimSpace(t)
              /\ selected.ShowNote = TrimSpace(n)
              /\ \A i \in 1..Len(uploads) :
                   uploads[i].args = <<flags.inputAudio, TrimSpace(t), TrimSpace(n)>>
       /\ ~(\E i, j \in 1..Len(content) :
              i < j /\ content[i] = "Title: " /\ content[j] = "Show Notes:") =>
            /\ pc = "failed" /\ selected = Nil
            /\ calls.uploadDraft = 0 /\ requests = <<>>

(***************************************************************************)
(* C29: a failed write of an output file is a warning.                     *)
(***************************************************************************)
\* process-transcript is past the saving of its output files and a file it
\* was to write is not there: the write failed
WriteFailed ==
  /\ cmd = "process" /\ selected # Nil
  /\ pc \in {"saved", "done", "failed"}
  /\ flags.outputDir # <<>>
  /\ \/ WritesAllCandidates /\ "all_candidates.txt" \notin files
     \/ ~(build.proc = "current" /\ flags.apiOnly) /\ "selection.txt" \notin files

\* C29: in process-transcript a failed write of the all-candidates file or
\* of the selection file does not end the run and does not touch the
\* selected content: the saving step leaves the SelectedContent as it is and
\* goes on to the upload, which is called with that SelectedContent, unless
\* the upload is skipped; the run fails afterwards only if the upload fails.
C29_WriteFailureWarnsOnly ==
  /\ [](WriteFailed =>
         /\ pc = "failed" => err[1] = "Art19 upload failed"
         /\ IF UploadSkipped
            THEN pc \in {"saved", "done"} /\ OpsOf("UploadDraft") = <<>>
            ELSE /\ pc \in {"done", "failed"} =>
                      OpsOf("UploadDraft") =
                        <<Op("UploadDraft",
                             <<flags.inputAudio, selected.Title, selected.ShowNote>>)>>
                 /\ pc = "saved" => OpsOf("UploadDraft") = <<>>)
  /\ [][cmd = "process" /\ pc = "selected" =>
          selected' = selected /\ err' = err /\ pc' \in {"saved", "done"}]_vars

\* both writes failed and the run went on to a successful upload
C29_Witness ==
  /\ WriteFailed
  /\ files = {}
  /\ pc = "done"
  /\ calls.uploadDraft = 1

(***************************************************************************)
(* C30: the padding loop of GenerateTitles.                                *)
(***************************************************************************)
\* the titles parsed from the answer of a line-parsing GenerateTitles
ParsedTitles == ParseTitles(AnswerText(api.titleAnswer))

\* a line-parsing GenerateTitles returned after parsing fewer than
\* TitleCount titles, so that the padding loop ran
PaddingRan ==
  /\ build.ai # "combined" /\ api.titleCall = "ok" /\ candidates # Nil
  /\ Len(ParsedTitles) < TitleCount

\* C30: for every number k in 0..9 of parsed titles the padding loop ends
\* after 10 - k iterations, every index at which it reads the default list
\* lies in 0..9, the k parsed titles are the first k entries of the result,
\* in order, and the result has exactly 10 entries.
C30_PaddingLoop ==
  PaddingRan =>
    LET k == Len(ParsedTitles)
        reads == PadReads(ParsedTitles, k)
    IN /\ Len(reads) = TitleCount - k
       /\ \A r \in 1..Len(reads) : reads[r] >= 0 /\ reads[r] <= Len(DefaultTitles) - 1
       /\ SubSeq(candidates.Titles, 1, k) = ParsedTitles
       /\ Len(candidates.Titles) = TitleCount
       /\ \A r \in 1..Len(reads) : candidates.Titles[k + r] = DefaultTitles[reads[r] + 1]

\* nine titles were parsed and one was padded
C30_Witness ==
  /\ PaddingRan
  /\ Len(ParsedTitles) = TitleCount - 1
  /\ Len(candidates.Titles) = TitleCount

====
